---- MODULE Spec2Model ----
(***************************************************************************)
(* Model of the polling/ingest core of thermostat-telemetry-reader:        *)
(* Scheduler.Start (backfill, ticker loop), the per-thermostat steps, the  *)
(* offset store, the document id generator and the Elasticsearch sink.     *)
(* Time is counted in 5-minute bins; one poll interval is one bin.         *)
(***************************************************************************)
EXTENDS Integers, Sequences, FiniteSets, TLC

\* ------------------------------------------------------------------ bounds
SetpointBase == 2000    \* drawn setpoints lie at and around this value, in 1/100 degC
MaxClock == 6           \* drawn clock readings and stored snapshot times are 0..MaxClock
MaxTime == 3            \* the wall clock runs from StartTime to MaxTime bins
MaxFaults == 2          \* injected faults (provider/sink errors, panic, kill) per behaviour
DayLen == 2             \* bins per calendar day (scaled down from 288)

RetryMax == 2           \* largest Config.MaxRetries drawn
Second == 8             \* clock ticks per second
CapDelay == 12          \* Config.MaxDelay drawn, in ticks
RandSteps == 4          \* rand.Float64() is drawn from {0, 1/RandSteps, ...} below 1

MaxWall == 1            \* minutes the auth calls may take
LongLife == 60          \* an expires_in the token endpoint returns, in minutes

MaxRecords == 2         \* Record calls one goroutine makes
MaxChecks == 4          \* providers and sinks of a HealthChecker
TicksPerSecond == 2     \* resolution of the times handed to an offset store
MaxTicks == 3           \* the latest such time, in ticks
MaxRows == 3            \* rows of one GetRuntime result

\* ------------------------------------------------------- program constants
StaleBins == 3          \* 15 minutes, in 5-minute bins
BackfillWindow == 2     \* s.backfillWindow, in bins
StartTime == 1          \* first wall-clock reading; 0 is the zero instant
ExpiryMargin == 5       \* IsTokenValid: minutes before tokenExpiry
ProbeDeadline == 5      \* checkSink: context.WithTimeout, in seconds
ClientTimeout == 30     \* http.Client.Timeout of a provider, in seconds
NumProviders == 2
NumSinks == 2

Zero == 0               \* time.Time{} (IsZero)
Nil == <<>>             \* a nil pointer; a non-nil *T holding v is <<v>>

Providers == 1..NumProviders
Sinks == 1..NumSinks

\* provider.ListThermostats on success: provider 1 owns one thermostat, provider 2 two
ThermostatsOf(p) == IF p = 1 THEN <<"th1">> ELSE <<"th2", "th3">>
Thermostats == {"th1", "th2", "th3"}

\* ---------------------------------------------------------- pure functions

\* The provider's runtime row for a bin: mode, climate, setpoints in 1/100 degC.
RawRow(t) ==
    IF t <= 1 THEN [mode |-> "HEAT", climate |-> "home", heat |-> <<2000>>, cool |-> Nil]
    ELSE IF t = 2 THEN [mode |-> "heating", climate |-> "", heat |-> <<2100>>, cool |-> Nil]
    ELSE [mode |-> "cool", climate |-> "away", heat |-> Nil, cool |-> <<2400>>]

\* strings.ToLower on the mode strings of the model
ToLower(str) ==
    CASE str \in {"HEAT", "Heat"} -> "heat"
      [] str = "COOL" -> "cool"
      [] str = "AUTO" -> "auto"
      [] str = "OFF" -> "off"
      [] str = "Disabled" -> "disabled"
      [] str = "auxHeatOnly" -> "auxheatonly"
      [] str = "UNKNOWN" -> "unknown"
      [] OTHER -> str

\* variant: the mode is compared as the provider wrote it
normalizeMode_CaseSensitive(mode) ==
    IF mode = "" THEN "off"
    ELSE CASE mode \in {"heat", "heating"} -> "heat"
           [] mode \in {"cool", "cooling"} -> "cool"
           [] mode \in {"auto", "automatic"} -> "auto"
           [] mode \in {"off", "disabled"} -> "off"
           [] OTHER -> mode
normalizeMode(mode) ==
    IF mode = "" THEN "off"
    ELSE LET modeLower == ToLower(mode)
         IN  CASE modeLower \in {"heat", "heating"} -> "heat"
               [] modeLower \in {"cool", "cooling"} -> "cool"
               [] modeLower \in {"auto", "automatic"} -> "auto"
               [] modeLower \in {"off", "disabled"} -> "off"
               [] OTHER -> modeLower

normalizeClimate(climate) ==
    CASE climate = "" -> "Home"
      [] climate \in {"home", "Home", "HOME"} -> "Home"
      [] climate \in {"away", "Away", "AWAY"} -> "Away"
      [] climate \in {"sleep", "Sleep", "SLEEP", "sleeping"} -> "Sleep"
      [] climate \in {"vacation", "Vacation", "VACATION"} -> "Vacation"
      [] OTHER -> climate

\* model.State of a canonical runtime document
NormalizeRuntime5m(th, t) ==
    [type |-> "runtime_5m", th |-> th, time |-> t,
     body |-> [mode |-> normalizeMode(RawRow(t).mode),
               climate |-> normalizeClimate(RawRow(t).climate),
               heat |-> RawRow(t).heat, cool |-> RawRow(t).cool]]

\* variant: a difference equal to the tolerance still counts as equal
floatsEqual_Inclusive(a, b, tolerance) ==
    IF a = Nil /\ b = Nil THEN TRUE
    ELSE IF a = Nil \/ b = Nil THEN FALSE
    ELSE (IF a[1] - b[1] < 0 THEN b[1] - a[1] ELSE a[1] - b[1]) <= tolerance

floatsEqual(a, b, tolerance) ==
    IF a = Nil /\ b = Nil THEN TRUE
    ELSE IF a = Nil \/ b = Nil THEN FALSE
    ELSE (IF a[1] - b[1] < 0 THEN b[1] - a[1] ELSE a[1] - b[1]) < tolerance

Tolerance == 10         \* 0.1 degC in 1/100 degC

hasStateChanged(prev, current) ==
    \/ prev.mode # current.mode
    \/ prev.climate # current.climate
    \/ ~floatsEqual(prev.heat, current.heat, Tolerance)
    \/ ~floatsEqual(prev.cool, current.cool, Tolerance)

\* variant: the climate is looked at before the mode
inferTransitionKind_ClimateFirst(prev, current) ==
    IF prev.climate # current.climate
    THEN (IF current.climate \in {"Away", "Vacation"} THEN "vacation" ELSE "schedule")
    ELSE IF prev.mode # current.mode THEN "manual"
    ELSE IF ~floatsEqual(prev.heat, current.heat, Tolerance)
            \/ ~floatsEqual(prev.cool, current.cool, Tolerance) THEN "hold"
    ELSE "unknown"

\* variant: kind inference uses a tolerance of its own, twice the predicate's
inferTransitionKind_OwnTolerance(prev, current) ==
    IF prev.mode # current.mode THEN "manual"
    ELSE IF prev.climate # current.climate
         THEN (IF current.climate \in {"Away", "Vacation"} THEN "vacation" ELSE "schedule")
    ELSE IF ~floatsEqual(prev.heat, current.heat, 2 * Tolerance)
            \/ ~floatsEqual(prev.cool, current.cool, 2 * Tolerance) THEN "hold"
    ELSE "unknown"

inferTransitionKind(prev, current) ==
    IF prev.mode # current.mode THEN "manual"
    ELSE IF prev.climate # current.climate
         THEN (IF current.climate \in {"Away", "Vacation"} THEN "vacation" ELSE "schedule")
    ELSE IF ~floatsEqual(prev.heat, current.heat, Tolerance)
            \/ ~floatsEqual(prev.cool, current.cool, Tolerance) THEN "hold"
    ELSE "unknown"

NormalizeTransition(th, t, prev, next) ==
    [type |-> "transition", th |-> th, time |-> t,
     body |-> [prev |-> prev, next |-> next, kind |-> inferTransitionKind(prev, next)]]

NormalizeDeviceSnapshot(th, collectedAt, program) ==
    [type |-> "device_snapshot", th |-> th, time |-> collectedAt, body |-> [program |-> program]]

\* Document ids.  The 64-bit hash prefix is modelled by the hashed value itself.
GenerateRuntime5mID(doc) == <<doc.th, doc.time, doc.type, doc.body>>
\* variant: the hash is over the next state only
GenerateTransitionID_NextOnly(doc) == <<doc.th, doc.time, <<doc.body.next>>>>
GenerateTransitionID(doc) == <<doc.th, doc.time, <<doc.body.prev, doc.body.next>>>>
GenerateDeviceSnapshotID(doc) == <<doc.th, doc.time>>

DocID(doc) ==
    CASE doc.type = "runtime_5m" -> GenerateRuntime5mID(doc)
      [] doc.type = "transition" -> GenerateTransitionID(doc)
      [] OTHER -> GenerateDeviceSnapshotID(doc)

\* variant: a request that begins after the first bin is answered with the
\* row of the bin before `from` alone
RuntimeRows_BinBefore(from, to) ==
    IF to < from \/ to < StartTime THEN <<>>
    ELSE IF from > StartTime THEN <<from - 1>>
    ELSE [i \in 1..(to - StartTime + 1) |-> StartTime + i - 1]

\* provider.GetRuntime on success: the rows of the bins in [from, to], in order
RECURSIVE RuntimeRows(_, _)
RuntimeRows(from, to) ==
    IF to < from \/ to < StartTime THEN <<>>
    ELSE IF from < StartTime THEN RuntimeRows(StartTime, to)
    ELSE <<from>> \o RuntimeRows(from + 1, to)

\* the loop of backfillThermostat: one runtime_5m document per row
RECURSIVE BackfillDocs(_, _)
BackfillDocs(th, rows) ==
    IF rows = <<>> THEN <<>>
    ELSE <<NormalizeRuntime5m(th, Head(rows))>> \o BackfillDocs(th, Tail(rows))

\* variant: the first row of a fetch is compared with a zero-value model.State
RECURSIVE RuntimeDocs_ZeroSeed(_, _, _)
RuntimeDocs_ZeroSeed(th, rows, prevState) ==
    IF rows = <<>> THEN <<>>
    ELSE LET canonical == NormalizeRuntime5m(th, Head(rows))
             current == canonical.body
             prev == IF prevState = Nil
                     THEN [mode |-> "", climate |-> "", heat |-> Nil, cool |-> Nil]
                     ELSE prevState[1]
             trans == IF hasStateChanged(prev, current)
                      THEN <<NormalizeTransition(th, canonical.time, prev, current)>>
                      ELSE <<>>
         IN  <<canonical>> \o trans \o RuntimeDocs_ZeroSeed(th, Tail(rows), <<current>>)

\* the loop of fetchAndProcessRuntime: runtime_5m documents, and a transition
\* after each row whose state differs from the previous row's
RECURSIVE RuntimeDocs(_, _, _)
RuntimeDocs(th, rows, prevState) ==
    IF rows = <<>> THEN <<>>
    ELSE LET canonical == NormalizeRuntime5m(th, Head(rows))
             current == canonical.body
             trans == IF prevState # Nil /\ hasStateChanged(prevState[1], current)
                      THEN <<NormalizeTransition(th, canonical.time, prevState[1], current)>>
                      ELSE <<>>
         IN  <<canonical>> \o trans \o RuntimeDocs(th, Tail(rows), <<current>>)

\* Sink.getIndexName: the index is chosen from the wall clock at write time
getIndexName(docType, wallClock) == <<docType, wallClock \div DayLen>>

\* an Elasticsearch index action: insert, or overwrite the record of the same
\* index and _id
Upsert(store, doc, wallClock) ==
    LET idx == getIndexName(doc.type, wallClock)
        id == DocID(doc)
    IN  {r \in store : ~(r.index = idx /\ r.id = id)}
            \cup {[index |-> idx, id |-> id, body |-> doc.body]}

RECURSIVE UpsertAll(_, _, _, _)
\* the bulk request: every document but the one at position `failed` (0: none)
UpsertAll(store, docs, failed, wallClock) ==
    IF docs = <<>> THEN store
    ELSE LET n == Len(docs)
             rest == UpsertAll(store, SubSeq(docs, 1, n - 1), failed, wallClock)
         IN  IF n = failed THEN rest ELSE Upsert(rest, docs[n], wallClock)

SeqToSet(s) == {s[i] : i \in 1..Len(s)}

\* -------------------------------------------------------------------- state
VARIABLES
    pc,                 \* where Start is: backfill, select, cycle, stopped, panicked, killed
    pi, ti,             \* provider and thermostat index of the running loop
    phase,              \* list, fetch, summary, snapshot, runtime, offset
    kind,               \* what the current batch is: backfill, snapshot, runtime
    batch,              \* docs that were handed to writeToAllSinks
    pendingTime,        \* EventTime of the last row / CollectedAt of the snapshot
    now,                \* the wall clock
    tickPending,        \* ticker.C (capacity 1) holds a tick
    cancelled,          \* ctx.Done() is closed
    lastRuntimeTimes,   \* MemoryOffsetStore.lastRuntimeTimes
    lastSnapshotTimes,  \* MemoryOffsetStore.lastSnapshotTimes
    sinkStore,          \* per sink, the records its indices hold
    faults,             \* injected faults so far
    activeCycles,       \* invocations of pollAllThermostats that have not returned
    writeResults,       \* history: what sink.Write returned for the current batch
    acked,              \* history: per sink, the documents it reported written
    visitedP, visitedT, \* history: providers listed / thermostats entered in this pass
    listFailed, errT,   \* history: providers whose list failed / thermostats with an error
    fetchFrom,          \* history: `from` of the latest polling runtime fetch per thermostat
    failedFrom,         \* history: `from` of a polling runtime fetch whose sink write failed
    crashDocs,          \* history: docs written by a step a kill cut before its offset
    calls,              \* history: provider calls made for the current thermostat of a cycle
    runtimeSkip,        \* history: per thermostat "empty" once its backfill returned no rows,
                        \*          "skipped" once a cycle then skipped its runtime fetch
    providerCalls,      \* history: the provider calls the latest step made
    recorded,           \* the Record* calls the latest step made on s.metrics
    fn, args, value,    \* a pure function of the core applied to drawn arguments
    op,                 \* the retry call in progress: Do or DoWithResponse
    config,             \* its retry.Config
    rpc,                \* where its loop is: idle, wait, call, returned
    attempt,            \* the loop counter
    resp, lastErr,      \* the locals resp and lastErr (Do: lastErr only)
    delay,              \* the delay of the latest wait
    clock,              \* the time since the call began
    ctxDone,            \* ctx.Done() of the retry call is closed
    ret,                \* what the call returned
    invocations,        \* history: how often the caller's operation was invoked
    authManager,        \* AuthManager.accessToken ("" is 0) and AuthManager.tokenExpiry
    callers,            \* per goroutine, its call of makeAuthenticatedRequest
    wall,               \* time.Now() of the auth calls, in minutes
    issued,             \* tokens the token endpoint has issued
    overwritten,        \* per goroutine, the accessToken its latest store replaced
    replaced,           \* history: access tokens replaced by a completed refresh
    stale,              \* history: goroutines that obtained or sent a replaced token
    collector,          \* the maps of a MetricsCollector
    mu,                 \* MetricsCollector.mu: the writer holding it, the readers
    workers,            \* per goroutine, its Record call in progress
    completed,          \* history: per counter, the Record calls that have returned
    snapshot,           \* what the latest GetMetrics returned
    hpc,                \* where CheckHealth is: providers, sinks, returned
    hi,                 \* the index of the provider or sink it probes next
    components,         \* how each provider and sink answers a call
    reqDone,            \* the request context of CheckHealth is done
    waited,             \* seconds the latest probe took
    probed,             \* kind of the latest probe: provider or sink
    probeResults,       \* the Status of the checks made so far
    healthStatus,       \* h.status.Status
    offsetStore,        \* the OffsetStore in use: its adapter and, in memory, its two maps
    dbFile,             \* the offset_tracking table of the SQLite database file
    sqliteOk,           \* whether NewSQLiteOffsetStore succeeds on this host
    wiredBy,            \* who constructed the store: main (initializeApp) or a test
    storeCall,          \* the latest call on the store and what it returned
    expected            \* history: per stream and id, the time of the latest set that returned nil

vars == <<pc, pi, ti, phase, kind, batch, pendingTime, now, tickPending, cancelled,
          lastRuntimeTimes, lastSnapshotTimes, sinkStore, faults, activeCycles,
          writeResults, acked, visitedP, visitedT, listFailed, errT, fetchFrom,
          failedFrom, crashDocs, calls, runtimeSkip, providerCalls, recorded,
          fn, args, value,
          op, config, rpc, attempt, resp, lastErr, delay, clock, ctxDone, ret,
          invocations, authManager, callers, wall, issued, overwritten, replaced,
          stale, collector, mu, workers, completed, snapshot,
          hpc, hi, components, reqDone, waited, probed, probeResults, healthStatus,
          offsetStore, dbFile, sqliteOk, wiredBy, storeCall, expected>>

\* the scheduler's part of the state, and the rest
schedVars == <<pc, pi, ti, phase, kind, batch, pendingTime, now, tickPending, cancelled,
               lastRuntimeTimes, lastSnapshotTimes, sinkStore, faults, activeCycles,
               writeResults, acked, visitedP, visitedT, listFailed, errT, fetchFrom,
               failedFrom, crashDocs, calls, runtimeSkip, providerCalls, recorded>>
pureVars == <<fn, args, value>>
retryVars == <<op, config, rpc, attempt, resp, lastErr, delay, clock, ctxDone, ret,
               invocations>>
authVars == <<authManager, callers, wall, issued, overwritten, replaced, stale>>
metricVars == <<collector, mu, workers, completed, snapshot>>
healthVars == <<hpc, hi, components, reqDone, waited, probed, probeResults, healthStatus>>
storeVars == <<offsetStore, dbFile, sqliteOk, wiredBy, storeCall, expected>>
others == <<pureVars, retryVars, authVars, metricVars, healthVars, storeVars>>
exceptPure == <<schedVars, retryVars, authVars, metricVars, healthVars, storeVars>>
exceptRetry == <<schedVars, pureVars, authVars, metricVars, healthVars, storeVars>>
exceptAuth == <<schedVars, pureVars, retryVars, metricVars, healthVars, storeVars>>
exceptMetrics == <<schedVars, pureVars, retryVars, authVars, healthVars, storeVars>>
exceptHealth == <<schedVars, pureVars, retryVars, authVars, metricVars, storeVars>>
exceptStore == <<schedVars, pureVars, retryVars, authVars, metricVars, healthVars>>

offsets == <<lastRuntimeTimes, lastSnapshotTimes>>
ctl == <<pc, pi, ti, phase, kind, batch, pendingTime>>
env == <<now, tickPending, cancelled>>
pass == <<visitedP, visitedT, listFailed, errT>>
hist4 == <<fetchFrom, failedFrom>>

Running == pc \in {"backfill", "cycle"}
CanFault == faults < MaxFaults

\* NewMemoryOffsetStore: every offset reads as the zero instant
NewMemoryOffsetStore == [t \in Thermostats |-> Zero]

\* no pure function is being applied
PureIdle == fn = "" /\ args = <<>> /\ value = Nil

\* the state main hands to Scheduler.Start
InitScheduler ==
    /\ pc = "backfill" /\ pi = 1 /\ ti = 0 /\ phase = "list"
    /\ kind = "none" /\ batch = <<>> /\ pendingTime = Zero
    /\ now = StartTime
    /\ tickPending = FALSE /\ cancelled = FALSE
    /\ lastRuntimeTimes = NewMemoryOffsetStore /\ lastSnapshotTimes = NewMemoryOffsetStore
    /\ sinkStore = [s \in Sinks |-> {}]
    /\ faults = 0 /\ activeCycles = 0
    /\ writeResults = <<>> /\ acked = [s \in Sinks |-> {}]
    /\ visitedP = {} /\ visitedT = {} /\ listFailed = {} /\ errT = {}
    /\ fetchFrom = [t \in Thermostats |-> Zero]
    /\ failedFrom = [t \in Thermostats |-> Zero]
    /\ crashDocs = {}
    /\ calls = <<>>
    /\ runtimeSkip = [t \in Thermostats |-> ""]
    /\ providerCalls = <<>> /\ recorded = <<>>

\* no retry call is in progress
RetryIdle ==
    /\ op = "" /\ config = <<>> /\ rpc = "idle" /\ attempt = 0
    /\ resp = Nil /\ lastErr = Nil /\ delay = 0 /\ clock = 0
    /\ ctxDone = FALSE /\ ret = Nil /\ invocations = 0

\* the goroutines that call the AuthManager
Callers == {"scheduler", "health"}

\* no authenticated call is in progress
AuthIdle ==
    /\ authManager = [accessToken |-> 0, tokenExpiry |-> 0]
    /\ callers = <<>> /\ wall = 0 /\ issued = 0
    /\ overwritten = <<>> /\ replaced = {} /\ stale = {}

\* the counters of a MetricsCollector, keyed by provider or sink (absent: 0)
Counters ==
    {<<"providerRequests", q>> : q \in Providers}
        \cup {<<"providerErrors", q>> : q \in Providers}
        \cup {<<"sinkWrites", q>> : q \in Sinks}
        \cup {<<"sinkErrors", q>> : q \in Sinks}
        \cup {<<"sinkDocumentsWritten", q>> : q \in Sinks}

\* NewMetricsCollector
NewMetricsCollector == [k \in Counters |-> 0]

\* no goroutine uses the MetricsCollector
MetricsIdle ==
    /\ collector = NewMetricsCollector
    /\ mu = [writer |-> Nil, readers |-> 0]
    /\ workers = <<>> /\ completed = <<>> /\ snapshot = <<>>

\* no health check is in progress
HealthIdle ==
    /\ hpc = "idle" /\ hi = 0 /\ components = <<>> /\ reqDone = FALSE
    /\ waited = 0 /\ probed = "" /\ probeResults = <<>> /\ healthStatus = "healthy"

\* no offset store has been constructed
StoreIdle ==
    /\ offsetStore = [adapter |-> "none"] /\ dbFile = <<>> /\ sqliteOk = FALSE
    /\ wiredBy = "" /\ storeCall = <<>> /\ expected = <<>>

\* the parts a specification of one component leaves idle
IdleExceptScheduler == PureIdle /\ RetryIdle /\ AuthIdle /\ MetricsIdle /\ HealthIdle /\ StoreIdle
IdleExceptPure == InitScheduler /\ RetryIdle /\ AuthIdle /\ MetricsIdle /\ HealthIdle /\ StoreIdle
IdleExceptRetry == InitScheduler /\ PureIdle /\ AuthIdle /\ MetricsIdle /\ HealthIdle /\ StoreIdle
IdleExceptAuth == InitScheduler /\ PureIdle /\ RetryIdle /\ MetricsIdle /\ HealthIdle /\ StoreIdle
IdleExceptMetrics == InitScheduler /\ PureIdle /\ RetryIdle /\ AuthIdle /\ HealthIdle /\ StoreIdle
IdleExceptHealth == InitScheduler /\ PureIdle /\ RetryIdle /\ AuthIdle /\ MetricsIdle /\ StoreIdle
IdleExceptStore == InitScheduler /\ PureIdle /\ RetryIdle /\ AuthIdle /\ MetricsIdle /\ HealthIdle

Init == InitScheduler /\ IdleExceptScheduler

\* ------------------------------------------------------------------ helpers
CurTh == ThermostatsOf(pi)[ti]

\* variant: a cycle goes straight to the runtime fetch, without the summary
FirstPhase_NoSummary == IF pc = "backfill" THEN "fetch" ELSE "runtime"

\* variant: the staleness test is strict
shouldFetchSnapshot_Strict(revision, lastSnapshot, t) ==
    revision # "" /\ (lastSnapshot = Zero \/ t - lastSnapshot > StaleBins)

\* variant: the offset is taken from the first row
LastEventTime_First(rows) == rows[1]

\* the first step for a thermostat: backfillThermostat's GetRuntime, or
\* pollThermostat's GetSummary
FirstPhase == IF pc = "backfill" THEN "fetch" ELSE "summary"

\* pollThermostat's shouldFetchSnapshot, time.Since(lastSnapshot) read at time t
shouldFetchSnapshot(revision, lastSnapshot, t) ==
    revision # "" /\ (lastSnapshot = Zero \/ t - lastSnapshot >= StaleBins)

\* runtimeData[len(runtimeData)-1].EventTime
LastEventTime(rows) == rows[Len(rows)]

\* a provider call fails: always once ctx is cancelled, else as an injected fault
CallFails ==
    \/ cancelled /\ faults' = faults
    \/ ~cancelled /\ CanFault /\ faults' = faults + 1

\* variant: the thermostat loop returns at the first error
NextThermostatIndex_Abort(p, t, failed) ==
    IF failed THEN 0 ELSE IF t < Len(ThermostatsOf(p)) THEN t + 1 ELSE 0

\* variant: the tick is served by a goroutine of its own, whatever Start is doing
LoopAtSelect_Concurrent == pc \in {"select", "cycle"}

\* the range loops over thermostats (performInitialBackfill, pollProvider): the
\* error of one thermostat is logged and the loop goes on; 0 means the list is done
NextThermostatIndex(p, t, failed) ==
    IF t < Len(ThermostatsOf(p)) THEN t + 1 ELSE 0

\* the range loops over providers: a failed provider is logged and the loop goes on
NextProviderIndex(p, failed) == p + 1

\* the select of Start is reached again only after pollAllThermostats returned
LoopAtSelect == pc = "select"

ClearBatch == kind' = "none" /\ batch' = <<>> /\ pendingTime' = Zero /\ writeResults' = <<>>

\* backfillThermostat / pollThermostat returned for thermostat ti of provider pi
Advance(failed) ==
    LET nt == NextThermostatIndex(pi, ti, failed)
    IN  /\ ClearBatch
        /\ calls' = <<>>
        /\ IF nt # 0
           THEN /\ pi' = pi /\ ti' = nt /\ phase' = FirstPhase
                /\ visitedT' = visitedT \cup {ThermostatsOf(pi)[nt]}
           ELSE /\ pi' = NextProviderIndex(pi, FALSE) /\ ti' = 0 /\ phase' = "list"
                /\ visitedT' = visitedT

DocKeys(docs) == {[id |-> DocID(d), body |-> d.body] : d \in docs}

\* what one sink.Write of `docs` does to the sink's records, by the result it
\* returns: ok, transport (an error, nothing indexed) or partial (ErrorCount > 0:
\* the item at position `failed` was rejected)
SinkWrite(store, docs, result, failed) ==
    CASE result = "ok" -> UpsertAll(store, docs, 0, now)
      [] result = "partial" -> UpsertAll(store, docs, failed, now)
      [] OTHER -> store

SinkAcked(docs, result, failed) ==
    CASE result = "ok" -> DocKeys(SeqToSet(docs))
      [] result = "partial" -> DocKeys({docs[i] : i \in (1..Len(docs)) \ {failed}})
      [] OTHER -> {}

Failures(results) == Cardinality({s \in Sinks : results[s] # "ok"})

\* writeToAllSinks' return value: nil, whatever the sinks returned
writeToAllSinks_err(results) == FALSE

\* variant: the loop returns at the first sink whose Write returns an error
writeToAllSinks_StopAtError(docs) ==
    \E results \in [Sinks -> {"ok", "transport", "partial"}] :
        LET failed == Len(docs)
            reached(s) == \A j \in 1..(s - 1) : results[j] # "transport"
        IN  /\ faults + Failures(results) <= MaxFaults
            /\ faults' = faults + Failures(results)
            /\ sinkStore' = [s \in Sinks |->
                                IF reached(s)
                                THEN SinkWrite(sinkStore[s], docs, results[s], failed)
                                ELSE sinkStore[s]]
            /\ acked' = [s \in Sinks |->
                            IF reached(s)
                            THEN acked[s] \cup SinkAcked(docs, results[s], failed)
                            ELSE acked[s]]
            /\ writeResults' = results

\* writeToAllSinks: sink.Write of the batch on every sink in turn, a failed sink is
\* logged and the loop goes on; a partial result rejects the last item of the batch
writeToAllSinks(docs) ==
    \E results \in [Sinks -> {"ok", "transport", "partial"}] :
        LET failed == Len(docs)
        IN  /\ faults + Failures(results) <= MaxFaults
            /\ faults' = faults + Failures(results)
            /\ sinkStore' = [s \in Sinks |-> SinkWrite(sinkStore[s], docs, results[s], failed)]
            /\ acked' = [s \in Sinks |-> acked[s] \cup SinkAcked(docs, results[s], failed)]
            /\ writeResults' = results

Transport(results) == \E s \in DOMAIN results : results[s] = "transport"
Partial(results) == \E s \in DOMAIN results : results[s] = "partial"
SomeOk(results) == \E s \in DOMAIN results : results[s] = "ok"

\* a call of provider q's method, and whether it returned an error
ProviderCall(q, method, failed) == [provider |-> q, method |-> method, failed |-> failed]

\* the calls of s.metrics
RecordProviderRequest(q) == [m |-> "RecordProviderRequest", name |-> q, n |-> 0]
RecordProviderError(q) == [m |-> "RecordProviderError", name |-> q, n |-> 0]
RecordSinkWrite(s, documentCount) == [m |-> "RecordSinkWrite", name |-> s, n |-> documentCount]
RecordSinkError(s) == [m |-> "RecordSinkError", name |-> s, n |-> 0]

\* the Record* calls of writeToAllSinks' loop from sink s on: a write that returned
\* an error records the error only; one that returned a result records the write
\* with its SuccessCount, and the error as well when ErrorCount > 0
RECURSIVE writeToAllSinks_Record(_, _, _)
writeToAllSinks_Record(docs, results, s) ==
    IF s > NumSinks \/ docs = <<>>
    THEN <<>>
    ELSE (CASE results[s] = "ok" -> <<RecordSinkWrite(s, Len(docs))>>
            [] results[s] = "partial" -> <<RecordSinkWrite(s, Len(docs) - 1), RecordSinkError(s)>>
            [] OTHER -> <<RecordSinkError(s)>>)
         \o writeToAllSinks_Record(docs, results, s + 1)

\* a step that calls no provider and records nothing
NoCalls == providerCalls' = <<>> /\ recorded' = <<>>

\* ------------------------------------------------------------------ actions

\* provider.ListThermostats in performInitialBackfill and in pollProvider
ListThermostats ==
    /\ UNCHANGED others
    /\ Running /\ phase = "list" /\ pi <= NumProviders
    /\ visitedP' = visitedP \cup {pi}
    /\ \/ /\ ~cancelled
          /\ pi' = pi /\ ti' = 1 /\ phase' = FirstPhase
          /\ visitedT' = visitedT \cup {ThermostatsOf(pi)[1]}
          /\ providerCalls' = <<ProviderCall(pi, "list_thermostats", FALSE)>>
          /\ UNCHANGED <<faults, listFailed>>
       \/ /\ CallFails
          /\ pi' = NextProviderIndex(pi, TRUE) /\ ti' = 0 /\ phase' = "list"
          /\ listFailed' = listFailed \cup {pi}
          /\ providerCalls' = <<ProviderCall(pi, "list_thermostats", TRUE)>>
          /\ UNCHANGED visitedT
    /\ recorded' = <<>>
    /\ UNCHANGED <<pc, kind, batch, pendingTime, env, offsets, sinkStore,
                   activeCycles, writeResults, acked, errT, hist4, crashDocs,
                   calls, runtimeSkip>>

\* backfillThermostat up to the return of writeToAllSinks
backfillThermostat ==
    /\ UNCHANGED others
    /\ pc = "backfill" /\ phase = "fetch"
    /\ \/ /\ ~cancelled
          /\ LET rows == RuntimeRows(now - BackfillWindow, now)
             IN  /\ batch' = BackfillDocs(CurTh, rows)
                 /\ pendingTime' = LastEventTime(rows)
                 /\ writeToAllSinks(BackfillDocs(CurTh, rows))
          /\ kind' = "backfill" /\ phase' = "offset"
          /\ providerCalls' = <<ProviderCall(pi, "get_runtime", FALSE)>>
          /\ recorded' = <<RecordProviderRequest(pi)>>
                              \o writeToAllSinks_Record(batch', writeResults', 1)
          /\ UNCHANGED <<pi, ti, visitedT, errT, calls, runtimeSkip>>
       \/ /\ ~cancelled /\ CanFault /\ faults' = faults + 1    \* no rows at all
          /\ runtimeSkip' = [runtimeSkip EXCEPT ![CurTh] = "empty"]
          /\ Advance(FALSE)
          /\ providerCalls' = <<ProviderCall(pi, "get_runtime", FALSE)>>
          /\ recorded' = <<RecordProviderRequest(pi)>>
          /\ UNCHANGED <<sinkStore, acked, errT>>
       \/ /\ CallFails
          /\ errT' = errT \cup {CurTh}
          /\ Advance(TRUE)
          /\ providerCalls' = <<ProviderCall(pi, "get_runtime", TRUE)>>
          /\ recorded' = <<RecordProviderRequest(pi), RecordProviderError(pi)>>
          /\ UNCHANGED <<sinkStore, acked, runtimeSkip>>
    /\ UNCHANGED <<pc, env, offsets, activeCycles, visitedP, listFailed, hist4, crashDocs>>

\* pollThermostat up to the decision to fetch the snapshot
pollThermostat ==
    /\ UNCHANGED others
    /\ pc = "cycle" /\ phase = "summary"
    /\ \/ /\ ~cancelled
          /\ \E revision \in {"", "R1"} :
                /\ revision = "" => CanFault
                /\ faults' = faults + (IF revision = "" THEN 1 ELSE 0)
                /\ phase' = IF shouldFetchSnapshot(revision, lastSnapshotTimes[CurTh], now)
                            THEN "snapshot" ELSE "runtime"
          /\ calls' = Append(calls, "summary")
          /\ providerCalls' = <<ProviderCall(pi, "get_summary", FALSE)>>
          /\ recorded' = <<RecordProviderRequest(pi)>>
          /\ UNCHANGED <<pi, ti, kind, batch, pendingTime, writeResults, visitedT, errT>>
       \/ /\ CallFails
          /\ errT' = errT \cup {CurTh}
          /\ Advance(TRUE)
          /\ providerCalls' = <<ProviderCall(pi, "get_summary", TRUE)>>
          /\ recorded' = <<RecordProviderRequest(pi), RecordProviderError(pi)>>
    /\ UNCHANGED <<pc, env, offsets, sinkStore, activeCycles, acked,
                   visitedP, listFailed, hist4, crashDocs, runtimeSkip>>

\* fetchAndProcessSnapshot up to the return of writeToAllSinks
fetchAndProcessSnapshot ==
    /\ UNCHANGED others
    /\ pc = "cycle" /\ phase = "snapshot"
    /\ calls' = Append(calls, "snapshot")
    /\ \/ /\ ~cancelled
          /\ batch' = <<NormalizeDeviceSnapshot(CurTh, now, "program")>>
          /\ pendingTime' = now
          /\ writeToAllSinks(<<NormalizeDeviceSnapshot(CurTh, now, "program")>>)
          /\ kind' = "snapshot" /\ phase' = "offset"
          /\ providerCalls' = <<ProviderCall(pi, "get_snapshot", FALSE)>>
          /\ recorded' = <<RecordProviderRequest(pi)>>
                              \o writeToAllSinks_Record(batch', writeResults', 1)
          /\ UNCHANGED errT
       \/ /\ CallFails
          /\ errT' = errT \cup {CurTh}
          /\ phase' = "runtime"
          /\ providerCalls' = <<ProviderCall(pi, "get_snapshot", TRUE)>>
          /\ recorded' = <<RecordProviderRequest(pi), RecordProviderError(pi)>>
          /\ UNCHANGED <<kind, batch, pendingTime, writeResults, sinkStore, acked>>
    /\ UNCHANGED <<pc, pi, ti, env, offsets, activeCycles,
                   visitedP, visitedT, listFailed, hist4, crashDocs, runtimeSkip>>

\* the rest of pollThermostat, and fetchAndProcessRuntime up to the return of
\* writeToAllSinks
fetchAndProcessRuntime ==
    /\ UNCHANGED others
    /\ pc = "cycle" /\ phase = "runtime"
    /\ LET lastRuntime == lastRuntimeTimes[CurTh]
       IN  \/ /\ lastRuntime = Zero
              /\ runtimeSkip' = IF runtimeSkip[CurTh] = "empty"
                                THEN [runtimeSkip EXCEPT ![CurTh] = "skipped"]
                                ELSE runtimeSkip
              /\ Advance(FALSE)
              /\ NoCalls
              /\ UNCHANGED <<faults, sinkStore, acked, errT, hist4>>
           \/ /\ lastRuntime # Zero /\ ~cancelled
              /\ LET rows == RuntimeRows(lastRuntime, now)
                 IN  /\ batch' = RuntimeDocs(CurTh, rows, Nil)
                     /\ pendingTime' = LastEventTime(rows)
                     /\ writeToAllSinks(RuntimeDocs(CurTh, rows, Nil))
              /\ kind' = "runtime" /\ phase' = "offset"
              /\ fetchFrom' = [fetchFrom EXCEPT ![CurTh] = lastRuntime]
              /\ failedFrom' = IF Transport(writeResults')
                               THEN [failedFrom EXCEPT ![CurTh] = lastRuntime]
                               ELSE failedFrom
              /\ calls' = Append(calls, "runtime")
              /\ providerCalls' = <<ProviderCall(pi, "get_runtime", FALSE)>>
              /\ recorded' = <<RecordProviderRequest(pi)>>
                                  \o writeToAllSinks_Record(batch', writeResults', 1)
              /\ UNCHANGED <<pi, ti, visitedT, errT, runtimeSkip>>
           \/ /\ lastRuntime # Zero /\ ~cancelled /\ CanFault    \* no new runtime data
              /\ faults' = faults + 1
              /\ Advance(FALSE)
              /\ providerCalls' = <<ProviderCall(pi, "get_runtime", FALSE)>>
              /\ recorded' = <<RecordProviderRequest(pi)>>
              /\ UNCHANGED <<sinkStore, acked, errT, hist4, runtimeSkip>>
           \/ /\ lastRuntime # Zero /\ CallFails    \* logged; pollThermostat returns nil
              /\ errT' = errT \cup {CurTh}
              /\ Advance(FALSE)
              /\ providerCalls' = <<ProviderCall(pi, "get_runtime", TRUE)>>
              /\ recorded' = <<RecordProviderRequest(pi), RecordProviderError(pi)>>
              /\ UNCHANGED <<sinkStore, acked, hist4, runtimeSkip>>
    /\ UNCHANGED <<pc, env, offsets, activeCycles, visitedP, listFailed, crashDocs>>

\* what follows writeToAllSinks in backfillThermostat, fetchAndProcessSnapshot and
\* fetchAndProcessRuntime: return its error, or set the offset
SetOffset ==
    /\ UNCHANGED others
    /\ NoCalls
    /\ Running /\ phase = "offset"
    /\ IF writeToAllSinks_err(writeResults)
       THEN UNCHANGED <<offsets, failedFrom>>
       ELSE /\ lastRuntimeTimes' = IF kind \in {"backfill", "runtime"}
                                   THEN [lastRuntimeTimes EXCEPT ![CurTh] = pendingTime]
                                   ELSE lastRuntimeTimes
            /\ lastSnapshotTimes' = IF kind = "snapshot"
                                    THEN [lastSnapshotTimes EXCEPT ![CurTh] = pendingTime]
                                    ELSE lastSnapshotTimes
            /\ failedFrom' = IF kind = "runtime" /\ ~Transport(writeResults)
                             THEN [failedFrom EXCEPT ![CurTh] = Zero]
                             ELSE failedFrom
    /\ IF kind = "snapshot"
       THEN /\ phase' = "runtime" /\ ClearBatch
            /\ UNCHANGED <<pi, ti, visitedT, calls>>
       ELSE Advance(writeToAllSinks_err(writeResults))
    /\ UNCHANGED <<pc, env, sinkStore, faults, activeCycles, acked,
                   visitedP, listFailed, errT, fetchFrom, crashDocs, runtimeSkip>>

\* performInitialBackfill returned: Start creates the ticker and enters its loop
performInitialBackfill ==
    /\ UNCHANGED others
    /\ NoCalls
    /\ pc = "backfill" /\ pi > NumProviders
    /\ pc' = "select"
    /\ visitedP' = {} /\ visitedT' = {} /\ listFailed' = {} /\ errT' = {}
    /\ UNCHANGED <<pi, ti, phase, kind, batch, pendingTime, env, offsets, sinkStore,
                   faults, activeCycles, writeResults, acked, hist4, crashDocs,
                   calls, runtimeSkip>>

\* Start's select takes the tick: pollAllThermostats is called
pollAllThermostats ==
    /\ UNCHANGED others
    /\ NoCalls
    /\ LoopAtSelect /\ pc \in {"select", "cycle"} /\ tickPending
    /\ tickPending' = FALSE
    /\ pc' = "cycle" /\ pi' = 1 /\ ti' = 0 /\ phase' = "list" /\ ClearBatch
    /\ activeCycles' = activeCycles + 1
    /\ visitedP' = {} /\ visitedT' = {} /\ listFailed' = {} /\ errT' = {}
    /\ UNCHANGED <<now, cancelled, offsets, sinkStore, faults, acked, hist4, crashDocs,
                   calls, runtimeSkip>>

\* pollAllThermostats returned: back to the select
pollAllThermostats_return ==
    /\ UNCHANGED others
    /\ NoCalls
    /\ pc = "cycle" /\ pi > NumProviders
    /\ pc' = "select"
    /\ activeCycles' = activeCycles - 1
    /\ visitedP' = {} /\ visitedT' = {} /\ listFailed' = {} /\ errT' = {}
    /\ UNCHANGED <<pi, ti, phase, kind, batch, pendingTime, env, offsets, sinkStore,
                   faults, writeResults, acked, hist4, crashDocs, calls, runtimeSkip>>

\* the locals of a Start that returned or died
Gone ==
    /\ pi' = 1 /\ ti' = 0 /\ phase' = "list" /\ ClearBatch
    /\ tickPending' = FALSE
    /\ activeCycles' = 0
    /\ visitedP' = {} /\ visitedT' = {} /\ listFailed' = {} /\ errT' = {}
    /\ fetchFrom' = [t \in Thermostats |-> Zero]
    /\ failedFrom' = [t \in Thermostats |-> Zero]
    /\ calls' = <<>>
    /\ runtimeSkip' = [t \in Thermostats |-> ""]
    /\ NoCalls

\* Start's select takes ctx.Done(): Start returns ctx.Err() and main returns
Start_ctxDone ==
    /\ UNCHANGED others
    /\ pc = "select" /\ cancelled
    /\ pc' = "stopped"
    /\ Gone
    /\ UNCHANGED <<now, cancelled, offsets, sinkStore, faults, acked, crashDocs>>

\* main's signal handler calls cancel(); arrivals are observed between two
\* provider passes or at the select
Cancel ==
    /\ UNCHANGED others
    /\ NoCalls
    /\ pc = "select" \/ (Running /\ phase = "list")
    /\ ~cancelled
    /\ cancelled' = TRUE
    /\ UNCHANGED <<ctl, now, tickPending, offsets, sinkStore, faults,
                   activeCycles, writeResults, acked, pass, hist4, crashDocs,
                   calls, runtimeSkip>>

\* one poll interval passes (between two provider passes, at the select, or
\* while the process is down); the ticker, once created, puts a tick in its channel
TimePasses ==
    /\ UNCHANGED others
    /\ NoCalls
    /\ now < MaxTime
    /\ pc \in {"select", "killed"} \/ (pc = "cycle" /\ phase = "list" /\ pi = NumProviders)
    /\ now' = now + 1
    /\ tickPending' = (tickPending \/ pc \in {"select", "cycle"})
    /\ UNCHANGED <<ctl, cancelled, offsets, sinkStore, faults,
                   activeCycles, writeResults, acked, pass, hist4, crashDocs,
                   calls, runtimeSkip>>

\* a panic inside a provider, sink or normalizer call of a polling cycle: nothing
\* in pollAllThermostats, Start or main recovers it, the process dies
Panic ==
    /\ UNCHANGED others
    /\ pc = "cycle" /\ pi <= NumProviders /\ CanFault
    /\ faults' = faults + 1
    /\ pc' = "panicked"
    /\ Gone
    /\ UNCHANGED <<now, cancelled, offsets, sinkStore, acked, crashDocs>>

\* the process is killed (power loss, SIGKILL) after writeToAllSinks returned and
\* before the offset is set
Kill ==
    /\ UNCHANGED others
    /\ Running /\ phase = "offset" /\ CanFault
    /\ faults' = faults + 1
    /\ pc' = "killed"
    /\ crashDocs' = IF ~Transport(writeResults) /\ ~Partial(writeResults)
                       /\ kind \in {"backfill", "runtime"}
                    THEN crashDocs \cup DocKeys(SeqToSet(batch))
                    ELSE crashDocs
    /\ Gone
    /\ cancelled' = FALSE
    /\ lastRuntimeTimes' = NewMemoryOffsetStore
    /\ lastSnapshotTimes' = NewMemoryOffsetStore
    /\ UNCHANGED <<now, sinkStore, acked>>

\* the service is started again after a kill: main builds a new Scheduler over
\* a new MemoryOffsetStore and calls Start
Restart ==
    /\ UNCHANGED others
    /\ NoCalls
    /\ pc = "killed"
    /\ pc' = "backfill"
    /\ UNCHANGED <<pi, ti, phase, kind, batch, pendingTime, env, offsets, sinkStore,
                   faults, activeCycles, writeResults, acked, pass, hist4, crashDocs,
                   calls, runtimeSkip>>

Next ==
    \/ ListThermostats
    \/ backfillThermostat
    \/ pollThermostat
    \/ fetchAndProcessSnapshot
    \/ fetchAndProcessRuntime
    \/ SetOffset
    \/ performInitialBackfill
    \/ pollAllThermostats
    \/ pollAllThermostats_return
    \/ Start_ctxDone
    \/ Cancel
    \/ TimePasses
    \/ Panic
    \/ Kill
    \/ Restart

Spec == Init /\ [][Next]_vars


\* ------------------------------------------------------------ package retry

\* An error is <<[msg |-> words, wraps |-> inner]>>, nil is Nil.  Error text is a
\* sequence of words; substring search is search for a run of words, exact in case.
Errorf(words, inner) ==
    <<[msg |-> words \o (IF inner = Nil THEN <<"%!w(<nil>)">> ELSE inner[1].msg),
       wraps |-> inner]>>
NewError(words) == <<[msg |-> words, wraps |-> Nil]>>

\* ctx.Err() once ctx.Done() is closed
CtxErr == NewError(<<"context", "canceled">>)

anyMatch(s, substr) ==
    \E i \in 0..(Len(s) - Len(substr)) : SubSeq(s, i + 1, i + Len(substr)) = substr

contains(s, substr) ==
    /\ Len(s) >= Len(substr)
    /\ (s = substr \/ (Len(s) > Len(substr) /\ anyMatch(s, substr)))

retriableMessages ==
    {<<"timeout">>, <<"connection", "refused">>, <<"connection", "reset">>,
     <<"temporary", "failure">>, <<"no", "such", "host">>,
     <<"TLS", "handshake", "timeout">>}

IsRetriable(err) ==
    IF err = Nil THEN FALSE
    ELSE \E m \in retriableMessages : contains(err[1].msg, m)

RECURSIVE Pow(_, _)
Pow(base, exp) == IF exp <= 0 THEN 1 ELSE base * Pow(base, exp - 1)

\* Config.Backoff; r is the draw of rand.Float64() in units of 1/RandSteps, and
\* the conversion to time.Duration truncates
Backoff(c, n, r) ==
    IF n <= 0 THEN 0
    ELSE LET exponential == c.InitialDelay * Pow(c.Multiplier, n - 1)
             capped == IF exponential > c.MaxDelay THEN c.MaxDelay ELSE exponential
         IN  IF c.Jitter THEN capped + (r * capped) \div (4 * RandSteps) ELSE capped

\* A Retry-After header value: "" (absent), a number of seconds, an HTTP date
\* (here: seconds after the call began), or something else.
RetryAfterValues ==
    {[form |-> "", n |-> 0], [form |-> "seconds", n |-> 0], [form |-> "seconds", n |-> 2],
     [form |-> "date", n |-> 1], [form |-> "date", n |-> 3], [form |-> "other", n |-> 0]}

\* parseRetryAfter at time t: strconv.Atoi, else http.ParseTime and time.Until
parseRetryAfter(v, t) ==
    CASE v.form = "seconds" -> v.n * Second
      [] v.form = "date" -> v.n * Second - t
      [] OTHER -> 0

\* what the caller's operation can hand back: *http.Response values ...
Response(code, status, retryAfter) ==
    <<[StatusCode |-> code, Status |-> status, RetryAfter |-> retryAfter]>>

Responses ==
    {Response(200, <<"200", "OK">>, h) : h \in {[form |-> "", n |-> 0]}}
        \cup {Response(404, <<"404", "Not", "Found">>, h) : h \in {[form |-> "", n |-> 0]}}
        \cup {Response(429, <<"429", "Too", "Many", "Requests">>, h) : h \in RetryAfterValues}
        \cup {Response(500, <<>>, h) : h \in {[form |-> "", n |-> 0]}}
        \cup {Response(503, <<"503", "Service", "Unavailable">>, h) : h \in RetryAfterValues}
        \cup {Response(504, <<"504", "Gateway", "Timeout">>, h) : h \in {[form |-> "", n |-> 0]}}
        \cup {Response(504, <<"504", "upstream", "timeout">>, h) : h \in RetryAfterValues}

\* ... and errors
Errors ==
    {NewError(<<"dial", "tcp:", "connection", "refused">>),
     NewError(<<"i/o", "timeout">>),
     NewError(<<"invalid", "request">>)}

\* the pairs (resp, err) of one invocation
Outcomes ==
    IF op = "Do" THEN {[resp |-> Nil, err |-> e] : e \in Errors \cup {Nil}}
    ELSE {[resp |-> r, err |-> Nil] : r \in Responses \cup {Nil}}
             \cup {[resp |-> Nil, err |-> e] : e \in Errors}

Configs ==
    [MaxRetries : 0..RetryMax, InitialDelay : {Second}, MaxDelay : {CapDelay},
     Multiplier : {2}, Jitter : BOOLEAN]

\* a call of Do or of DoWithResponse has been entered: attempt 0 has no wait
InitRetry ==
    /\ IdleExceptRetry
    /\ op \in {"Do", "DoWithResponse"}
    /\ config \in {<<c>> : c \in Configs}
    /\ rpc = "call" /\ attempt = 0
    /\ resp = Nil /\ lastErr = Nil /\ delay = 0 /\ clock = 0
    /\ ctxDone = FALSE /\ ret = Nil /\ invocations = 0

Return(r, e) == rpc' = "returned" /\ ret' = <<[resp |-> r, err |-> e]>>

\* variant: the loop test admits one iteration more
NextAttempt_OneMore(r, e) ==
    IF attempt + 1 <= config[1].MaxRetries + 1
    THEN /\ attempt' = attempt + 1 /\ rpc' = "wait" /\ ret' = ret
    ELSE /\ attempt' = attempt + 1
         /\ Return(r, Errorf(<<"max", "retries", "exceeded:">>, e))

\* the end of a loop iteration: attempt++, then the loop test
NextAttempt(r, e) ==
    IF attempt + 1 <= config[1].MaxRetries
    THEN /\ attempt' = attempt + 1 /\ rpc' = "wait" /\ ret' = ret
    ELSE /\ attempt' = attempt + 1
         /\ Return(r, Errorf(<<"max", "retries", "exceeded:">>, e))

\* the wait at the top of an iteration with attempt > 0: the delay, and the select
Wait ==
    /\ rpc = "wait"
    /\ \E r \in 0..(RandSteps - 1) :
         LET backoff == Backoff(config[1], attempt, r)
             hinted == IF op = "DoWithResponse" /\ resp # Nil
                          /\ resp[1].RetryAfter.form # ""
                          /\ parseRetryAfter(resp[1].RetryAfter, clock) > 0
                       THEN parseRetryAfter(resp[1].RetryAfter, clock)
                       ELSE backoff
         IN  /\ delay' = hinted
             /\ \/ /\ ctxDone                           \* case <-ctx.Done()
                   /\ Return(Nil, Errorf(<<"retry", "cancelled:">>, CtxErr))
                   /\ UNCHANGED clock
                \/ /\ ~ctxDone \/ hinted <= 0            \* case <-time.After(delay)
                   /\ rpc' = "call" /\ clock' = clock + hinted
                   /\ UNCHANGED ret
    /\ UNCHANGED <<op, config, attempt, resp, lastErr, ctxDone, invocations>>
    /\ UNCHANGED exceptRetry

\* fn() of Do and what follows it in the iteration
Do_invoke ==
    /\ op = "Do" /\ rpc = "call"
    /\ invocations' = invocations + 1
    /\ \E o \in Outcomes :
         IF o.err = Nil THEN /\ Return(Nil, Nil)
                             /\ UNCHANGED <<lastErr, attempt>>
         ELSE /\ lastErr' = o.err
              /\ IF ~IsRetriable(o.err)
                 THEN Return(Nil, o.err) /\ UNCHANGED attempt
                 ELSE NextAttempt(Nil, o.err)
    /\ UNCHANGED <<op, config, resp, delay, clock, ctxDone>>
    /\ UNCHANGED exceptRetry

\* fn() of DoWithResponse and what follows it in the iteration
DoWithResponse_invoke ==
    /\ op = "DoWithResponse" /\ rpc = "call"
    /\ invocations' = invocations + 1
    /\ \E o \in Outcomes :
         LET final == o.err = Nil /\ o.resp # Nil /\ o.resp[1].StatusCode < 500
                          /\ o.resp[1].StatusCode # 429
             err == IF o.err = Nil /\ o.resp # Nil
                    THEN NewError(<<"HTTP", ToString(o.resp[1].StatusCode), ":">>
                                      \o o.resp[1].Status)
                    ELSE o.err
         IN  /\ resp' = o.resp
             /\ IF final THEN /\ lastErr' = o.err
                              /\ Return(o.resp, Nil) /\ UNCHANGED attempt
                ELSE /\ lastErr' = err
                     /\ IF err # Nil /\ ~IsRetriable(err)
                        THEN Return(o.resp, err) /\ UNCHANGED attempt
                        ELSE NextAttempt(o.resp, err)
    /\ UNCHANGED <<op, config, delay, clock, ctxDone>>
    /\ UNCHANGED exceptRetry

\* the caller cancels ctx while the call is in progress
CtxCancel ==
    /\ rpc \in {"wait", "call"} /\ ~ctxDone
    /\ ctxDone' = TRUE
    /\ UNCHANGED <<op, config, rpc, attempt, resp, lastErr, delay, clock, ret, invocations>>
    /\ UNCHANGED exceptRetry

NextRetry ==
    \/ Wait
    \/ Do_invoke
    \/ DoWithResponse_invoke
    \/ CtxCancel

SpecRetry == InitRetry /\ [][NextRetry]_vars

\* the goroutine that runs the loop is scheduled and its timers fire
SpecRetryFair == SpecRetry /\ WF_vars(NextRetry)

\* ------------------------------------------------------ ecobee AuthManager

Other(c) == CHOOSE d \in Callers : d # c

\* expires_in of a token response: at the margin of IsTokenValid, or long
Lifetimes == {ExpiryMargin, LongLife}

\* AuthManager has no lock: a read of accessToken that races with the other
\* goroutine's store yields the current value or the one that store replaced
Observed(c) ==
    {authManager} \cup {[authManager EXCEPT !.accessToken = t] : t \in overwritten[Other(c)]}

\* AuthManager.IsTokenValid on the fields as read
IsTokenValid(a, t) == a.accessToken # 0 /\ t < a.tokenExpiry - ExpiryMargin

NewCall(c) ==
    [pc |-> IF c = "health" THEN "probe" ELSE "enter", cont |-> "",
     token |-> 0, old |-> 0, pending |-> Nil,
     sends |-> 0, refreshes |-> 0, got401 |-> FALSE, out |-> ""]

\* the scheduler makes a provider call while /healthz runs checkProvider
InitAuth ==
    /\ IdleExceptAuth
    /\ authManager \in {[accessToken |-> 0, tokenExpiry |-> 0],
                        [accessToken |-> 1, tokenExpiry |-> ExpiryMargin + 1],
                        [accessToken |-> 1, tokenExpiry |-> LongLife]}
    /\ issued = authManager.accessToken
    /\ callers = [c \in Callers |-> NewCall(c)]
    /\ wall = 0
    /\ overwritten = [c \in Callers |-> {}]
    /\ replaced = {} /\ stale = {}

At(c, where) == callers[c].pc = where
Goto(c, where) == callers' = [callers EXCEPT ![c].pc = where]
Finish(c, outcome) == callers' = [callers EXCEPT ![c].pc = "done", ![c].out = outcome]

\* a goroutine's store to a.accessToken
StoreToken(c, t) ==
    /\ authManager' = [authManager EXCEPT !.accessToken = t]
    /\ overwritten' = [overwritten EXCEPT ![c] = {authManager.accessToken},
                                          ![Other(c)] = {}]

\* checkProvider: if !auth.IsTokenValid(ctx) { auth.RefreshToken(ctx) }
checkProvider(c) ==
    /\ At(c, "probe")
    /\ \E a \in Observed(c) :
         IF IsTokenValid(a, wall) THEN Goto(c, "enter")
         ELSE callers' = [callers EXCEPT ![c].pc = "refresh", ![c].cont = "enter"]
    /\ UNCHANGED <<authManager, wall, issued, overwritten, replaced, stale>>
    /\ UNCHANGED exceptAuth

\* GetAccessToken up to its return statement, first call and call after a 401
GetAccessToken(c) ==
    /\ At(c, "enter") \/ At(c, "reget")
    /\ LET next == IF At(c, "enter") THEN "read" ELSE "reread"
       IN  \E a \in Observed(c) :
             IF IsTokenValid(a, wall) THEN Goto(c, next)
             ELSE callers' = [callers EXCEPT
                                 ![c].pc = "refresh", ![c].cont = next,
                                 ![c].refreshes = IF At(c, "reget") THEN @ + 1 ELSE @]
    /\ UNCHANGED <<authManager, wall, issued, overwritten, replaced, stale>>
    /\ UNCHANGED exceptAuth

\* return a.accessToken
GetAccessToken_return(c) ==
    /\ At(c, "read") \/ At(c, "reread")
    /\ \E a \in Observed(c) :
         /\ callers' = [callers EXCEPT ![c].token = a.accessToken,
                                       ![c].pc = IF At(c, "read") THEN "send" ELSE "resend"]
         /\ stale' = IF a.accessToken \in replaced THEN stale \cup {c} ELSE stale
    /\ UNCHANGED <<authManager, wall, issued, overwritten, replaced>>
    /\ UNCHANGED exceptAuth

\* RefreshToken up to the decoded token response
RefreshToken(c) ==
    /\ At(c, "refresh")
    /\ \/ \E life \in Lifetimes :
            /\ issued' = issued + 1
            /\ callers' = [callers EXCEPT
                              ![c].pc = "store_token",
                              ![c].pending = <<[token |-> issued + 1, life |-> life]>>]
       \/ /\ Finish(c, "refresh failed")
          /\ UNCHANGED issued
    /\ UNCHANGED <<authManager, wall, overwritten, replaced, stale>>
    /\ UNCHANGED exceptAuth

\* a.accessToken = tokenResp.AccessToken
RefreshToken_storeToken(c) ==
    /\ At(c, "store_token")
    /\ StoreToken(c, callers[c].pending[1].token)
    /\ callers' = [callers EXCEPT ![c].pc = "store_expiry",
                                  ![c].old = authManager.accessToken]
    /\ UNCHANGED <<wall, issued, replaced, stale>>
    /\ UNCHANGED exceptAuth

\* a.tokenExpiry = time.Now().Add(...); return nil
RefreshToken_storeExpiry(c) ==
    /\ At(c, "store_expiry")
    /\ authManager' = [authManager EXCEPT !.tokenExpiry = wall + callers[c].pending[1].life]
    /\ callers' = [callers EXCEPT ![c].pc = callers[c].cont, ![c].pending = Nil]
    /\ replaced' = replaced \cup ({callers[c].old} \ {0, callers[c].pending[1].token})
    /\ UNCHANGED <<wall, issued, overwritten, stale>>
    /\ UNCHANGED exceptAuth

ApiOutcomes == {"200", "401", "500", "error"}

\* a.httpClient.Do(req) and what follows it, first send
makeAuthenticatedRequest_send(c) ==
    /\ At(c, "send")
    /\ \E o \in ApiOutcomes :
         callers' = [callers EXCEPT
            ![c].sends = @ + 1,
            ![c].got401 = (o = "401"),
            ![c].refreshes = IF o = "401" THEN @ + 1 ELSE @,
            ![c].cont = IF o = "401" THEN "reget" ELSE @,
            ![c].pc = IF o = "401" THEN "refresh" ELSE "done",
            ![c].out = CASE o = "401" -> @
                         [] o = "error" -> "request failed"
                         [] OTHER -> "response"]
    /\ stale' = IF callers[c].token \in replaced THEN stale \cup {c} ELSE stale
    /\ UNCHANGED <<authManager, wall, issued, overwritten, replaced>>
    /\ UNCHANGED exceptAuth

\* resp, err = a.httpClient.Do(req) after the refresh; return
makeAuthenticatedRequest_resend(c) ==
    /\ At(c, "resend")
    /\ \E o \in ApiOutcomes :
         callers' = [callers EXCEPT
            ![c].sends = @ + 1, ![c].pc = "done",
            ![c].out = IF o = "error" THEN "request failed" ELSE "response"]
    /\ stale' = IF callers[c].token \in replaced THEN stale \cup {c} ELSE stale
    /\ UNCHANGED <<authManager, wall, issued, overwritten, replaced>>
    /\ UNCHANGED exceptAuth

\* a minute passes while calls are in progress
AuthTimePasses ==
    /\ wall < MaxWall /\ \E c \in Callers : ~At(c, "done")
    /\ wall' = wall + 1
    /\ UNCHANGED <<authManager, callers, issued, overwritten, replaced, stale>>
    /\ UNCHANGED exceptAuth

NextAuth ==
    \/ \E c \in Callers : checkProvider(c)
    \/ \E c \in Callers : GetAccessToken(c)
    \/ \E c \in Callers : GetAccessToken_return(c)
    \/ \E c \in Callers : RefreshToken(c)
    \/ \E c \in Callers : RefreshToken_storeToken(c)
    \/ \E c \in Callers : RefreshToken_storeExpiry(c)
    \/ \E c \in Callers : makeAuthenticatedRequest_send(c)
    \/ \E c \in Callers : makeAuthenticatedRequest_resend(c)
    \/ AuthTimePasses

SpecAuth == InitAuth /\ [][NextAuth]_vars

\* -------------------------------------------------------- MetricsCollector

\* goroutines that record (scheduler, tests) and the /metrics handler
Goroutines == {"g1", "g2"}
Reader == "metrics"

\* the Record* calls with their arguments
RecordCalls ==
    {[m |-> "RecordProviderRequest", name |-> q, n |-> 0] : q \in Providers}
        \cup {[m |-> "RecordProviderError", name |-> q, n |-> 0] : q \in Providers}
        \cup {[m |-> "RecordSinkWrite", name |-> 1, n |-> n] : n \in {0, 2}}
        \cup {[m |-> "RecordSinkError", name |-> 1, n |-> 0]}

\* what a Record* body adds to each counter
Delta(call) ==
    [k \in Counters |->
        CASE call.m = "RecordProviderRequest" /\ k = <<"providerRequests", call.name>> -> 1
          [] call.m = "RecordProviderError" /\ k = <<"providerErrors", call.name>> -> 1
          [] call.m = "RecordSinkWrite" /\ k = <<"sinkWrites", call.name>> -> 1
          [] call.m = "RecordSinkWrite" /\ k = <<"sinkDocumentsWritten", call.name>> -> call.n
          [] call.m = "RecordSinkError" /\ k = <<"sinkErrors", call.name>> -> 1
          [] OTHER -> 0]

\* the counters a Record* body assigns
Touched(call) ==
    CASE call.m = "RecordProviderRequest" -> {<<"providerRequests", call.name>>}
      [] call.m = "RecordProviderError" -> {<<"providerErrors", call.name>>}
      [] call.m = "RecordSinkWrite" -> {<<"sinkWrites", call.name>>,
                                        <<"sinkDocumentsWritten", call.name>>}
      [] OTHER -> {<<"sinkErrors", call.name>>}

\* variant: the Record* methods do not take the lock
Lock_NotTaken(m) == TRUE

\* m.mu.Lock() returns
Lock(m) == m.writer = Nil /\ m.readers = 0

\* m.mu.RLock() returns
RLock(m) == m.writer = Nil

\* GetMetrics: providers are listed from the keys of providerRequests, sinks from
\* the keys of sinkWrites; what is not listed reads as 0
GetMetrics(c) ==
    [k \in Counters |->
        IF k[1] \in {"providerRequests", "providerErrors"}
        THEN (IF c[<<"providerRequests", k[2]>>] > 0 THEN c[k] ELSE 0)
        ELSE (IF c[<<"sinkWrites", k[2]>>] > 0 THEN c[k] ELSE 0)]

InitMetrics ==
    /\ IdleExceptMetrics
    /\ collector = NewMetricsCollector
    /\ mu = [writer |-> Nil, readers |-> 0]
    /\ workers = [g \in Goroutines \cup {Reader} |->
                     [pc |-> "idle", call |-> Nil, tmp |-> Nil, left |-> MaxRecords]]
    /\ completed = [k \in Counters |-> 0]
    /\ snapshot = Nil

\* a Record* method is called: m.mu.Lock(); defer m.mu.Unlock()
Record_Lock(g) ==
    /\ workers[g].pc = "idle" /\ workers[g].left > 0
    /\ Lock(mu)
    /\ \E call \in RecordCalls :
         workers' = [workers EXCEPT ![g].pc = "locked", ![g].call = <<call>>,
                                    ![g].left = @ - 1]
    /\ mu' = [mu EXCEPT !.writer = <<g>>]
    /\ UNCHANGED <<collector, completed, snapshot>>
    /\ UNCHANGED exceptMetrics

\* the read of m.counter[name] in counter[name]++ or counter[name] += n
Record_load(g) ==
    /\ workers[g].pc = "locked"
    /\ workers' = [workers EXCEPT ![g].pc = "loaded",
                                  ![g].tmp = <<[k \in Touched(workers[g].call[1]) |->
                                                   collector[k]]>>]
    /\ UNCHANGED <<collector, mu, completed, snapshot>>
    /\ UNCHANGED exceptMetrics

\* the assignment of the incremented value
Record_store(g) ==
    /\ workers[g].pc = "loaded"
    /\ LET call == workers[g].call[1]
       IN  collector' = [k \in Counters |->
                            IF k \in Touched(call)
                            THEN workers[g].tmp[1][k] + Delta(call)[k]
                            ELSE collector[k]]
    /\ workers' = [workers EXCEPT ![g].pc = "stored", ![g].tmp = Nil]
    /\ UNCHANGED <<mu, completed, snapshot>>
    /\ UNCHANGED exceptMetrics

\* the deferred m.mu.Unlock(); the method returns
Record_Unlock(g) ==
    /\ workers[g].pc = "stored"
    /\ mu' = [mu EXCEPT !.writer = Nil]
    /\ completed' = [k \in Counters |-> completed[k] + Delta(workers[g].call[1])[k]]
    /\ workers' = [workers EXCEPT ![g].pc = "idle", ![g].call = Nil]
    /\ UNCHANGED <<collector, snapshot>>
    /\ UNCHANGED exceptMetrics

\* GetMetrics: m.mu.RLock(); defer m.mu.RUnlock()
GetMetrics_RLock ==
    /\ workers[Reader].pc = "idle"
    /\ RLock(mu)
    /\ mu' = [mu EXCEPT !.readers = @ + 1]
    /\ workers' = [workers EXCEPT ![Reader].pc = "rlocked"]
    /\ UNCHANGED <<collector, completed, snapshot>>
    /\ UNCHANGED exceptMetrics

\* GetMetrics builds and returns the Metrics value
GetMetrics_return ==
    /\ workers[Reader].pc = "rlocked"
    /\ snapshot' = <<GetMetrics(collector)>>
    /\ mu' = [mu EXCEPT !.readers = @ - 1]
    /\ workers' = [workers EXCEPT ![Reader].pc = "idle"]
    /\ UNCHANGED <<collector, completed>>
    /\ UNCHANGED exceptMetrics

NextMetrics ==
    \/ \E g \in Goroutines : Record_Lock(g)
    \/ \E g \in Goroutines : Record_load(g)
    \/ \E g \in Goroutines : Record_store(g)
    \/ \E g \in Goroutines : Record_Unlock(g)
    \/ GetMetrics_RLock
    \/ GetMetrics_return

SpecMetrics == InitMetrics /\ [][NextMetrics]_vars

\* ------------------------------------------- pure functions on drawn arguments

\* model.State values: setpoints absent, at the base, just below and at the tolerance
Setpoints == {Nil, <<SetpointBase>>, <<SetpointBase + Tolerance - 1>>,
              <<SetpointBase + Tolerance>>}
States == [mode : {"heat", "cool"}, climate : {"Home", "Away", "Sleep", "Vacation"},
           heat : Setpoints, cool : Setpoints \ {<<SetpointBase>>}]

StatePairs == {[of |-> "states", prev |-> p, cur |-> c] : p \in States, c \in States}
SnapshotInputs ==
    {[of |-> "snapshot", revision |-> r, lastSnapshot |-> l, t |-> t] :
        r \in {"", "R1"}, l \in 0..MaxClock, t \in 1..MaxClock}

\* Config.Backoff is drawn an attempt number and a draw of rand.Float64()
BackoffInputs ==
    {[of |-> "backoff", c |-> c, n |-> n, r |-> r] :
        c \in Configs, n \in 0..(RetryMax + 2), r \in 0..(RandSteps - 1)}

\* CheckHealth's loop over the checks map from the i-th check of one iteration
\* order on: a fail makes the status unhealthy and ends the loop, a warn makes
\* it degraded
RECURSIVE overallStatus_NoBreak(_, _, _)
RECURSIVE overallStatus(_, _, _)

\* variant: the loop goes on after a fail
overallStatus_NoBreak(checks, i, status) ==
    IF i > Len(checks) THEN status
    ELSE IF checks[i] = "fail" THEN overallStatus_NoBreak(checks, i + 1, "unhealthy")
    ELSE IF checks[i] = "warn" THEN overallStatus_NoBreak(checks, i + 1, "degraded")
    ELSE overallStatus_NoBreak(checks, i + 1, status)
overallStatus(checks, i, status) ==
    IF i > Len(checks) THEN status
    ELSE IF checks[i] = "fail" THEN "unhealthy"
    ELSE IF checks[i] = "warn" THEN overallStatus(checks, i + 1, "degraded")
    ELSE overallStatus(checks, i + 1, status)

\* the Status CheckHealth returns for the check results in the order its range
\* over the map yields them
CheckHealth(checks) == overallStatus(checks, 1, "healthy")

\* the results of checkProvider and checkSink
CheckStatuses == {"pass", "warn", "fail"}

\* the check results of up to MaxChecks providers and sinks, in every order
HealthInputs ==
    {[of |-> "checks", checks |-> c] :
        c \in UNION {[1..n -> CheckStatuses] : n \in 0..MaxChecks}}

\* mode strings a provider may send
ModeInputs ==
    {[of |-> "mode", mode |-> m] :
        m \in {"", "heat", "HEAT", "Heat", "heating", "cool", "COOL", "cooling",
               "auto", "AUTO", "automatic", "off", "OFF", "disabled", "Disabled",
               "auxHeatOnly", "auxheatonly", "unknown", "UNKNOWN"}}

\* canonical documents: runtime_5m documents of two thermostats and three bins
\* with the body of any bin, transitions between the states of two bins with
\* either of two event kinds, device snapshots with either of two programs
SampleDocs ==
    {[NormalizeRuntime5m(th, t) EXCEPT !.body = NormalizeRuntime5m(th, u).body] :
        th \in {"th1", "th2"}, t \in 1..3, u \in 1..3}
    \cup {[NormalizeTransition(th, t, NormalizeRuntime5m(th, u).body,
                               NormalizeRuntime5m(th, w).body) EXCEPT !.body.kind = k] :
             th \in {"th1", "th2"}, t \in 1..2, u \in 2..3, w \in 2..3,
             k \in {"manual", "hold"}}
    \cup {NormalizeDeviceSnapshot(th, t, program) :
             th \in {"th1", "th2"}, t \in 1..2, program \in {"program", "program2"}}

\* two documents of the same type
DocPairs ==
    {[of |-> "docs", a |-> pair[1], b |-> pair[2]] :
        pair \in {q \in SampleDocs \X SampleDocs : q[1].type = q[2].type}}

\* runtimeData as a provider may return it: rows in event_time order, each
\* with a body json.Marshal accepts (marshals) or one it rejects, such as a
\* temperature that parsed to NaN
RowInputs ==
    {[of |-> "rows", rows |-> r] :
        r \in {q \in UNION {[1..n -> [time : StartTime..MaxTime, marshals : BOOLEAN]]
                                : n \in 0..MaxRows} :
                  \A i \in 1..(Len(q) - 1) : q[i].time <= q[i + 1].time}}

\* the loop of backfillThermostat and fetchAndProcessRuntime: the event times
\* of the runtime_5m documents appended to docs; a row whose
\* GenerateRuntime5mID fails is logged and skipped
RECURSIVE AppendedDocs(_)
AppendedDocs(runtimeData) ==
    IF runtimeData = <<>> THEN <<>>
    ELSE (IF Head(runtimeData).marshals THEN <<Head(runtimeData).time>> ELSE <<>>)
            \o AppendedDocs(Tail(runtimeData))

\* what follows the loop: docs go to writeToAllSinks, whose error is always
\* nil, and the offset is set when len(runtimeData) > 0
processRuntimeData(runtimeData) ==
    [docs |-> AppendedDocs(runtimeData),
     offset |-> IF Len(runtimeData) > 0
                THEN <<LastEventTime(runtimeData).time>> ELSE Nil]

InitPure ==
    /\ IdleExceptPure
    /\ fn = "" /\ value = Nil
    /\ args \in StatePairs \cup {i \in SnapshotInputs : i.lastSnapshot <= i.t}
                \cup BackoffInputs \cup HealthInputs \cup ModeInputs \cup DocPairs
                \cup RowInputs

Apply_hasStateChanged ==
    /\ fn = "" /\ args.of = "states"
    /\ fn' = "hasStateChanged"
    /\ value' = <<hasStateChanged(args.prev, args.cur)>>
    /\ UNCHANGED <<args, exceptPure>>

Apply_inferTransitionKind ==
    /\ fn = "" /\ args.of = "states"
    /\ fn' = "inferTransitionKind"
    /\ value' = <<inferTransitionKind(args.prev, args.cur)>>
    /\ UNCHANGED <<args, exceptPure>>

Apply_shouldFetchSnapshot ==
    /\ fn = "" /\ args.of = "snapshot"
    /\ fn' = "shouldFetchSnapshot"
    /\ value' = <<shouldFetchSnapshot(args.revision, args.lastSnapshot, args.t)>>
    /\ UNCHANGED <<args, exceptPure>>

Apply_Backoff ==
    /\ fn = "" /\ args.of = "backoff"
    /\ fn' = "Backoff"
    /\ value' = <<Backoff(args.c, args.n, args.r)>>
    /\ UNCHANGED <<args, exceptPure>>

Apply_CheckHealth ==
    /\ fn = "" /\ args.of = "checks"
    /\ fn' = "CheckHealth"
    /\ value' = <<CheckHealth(args.checks)>>
    /\ UNCHANGED <<args, exceptPure>>

Apply_normalizeMode ==
    /\ fn = "" /\ args.of = "mode"
    /\ fn' = "normalizeMode"
    /\ value' = <<normalizeMode(args.mode)>>
    /\ UNCHANGED <<args, exceptPure>>

Apply_DocID ==
    /\ fn = "" /\ args.of = "docs"
    /\ fn' = "DocID"
    /\ value' = <<DocID(args.a), DocID(args.b)>>
    /\ UNCHANGED <<args, exceptPure>>

Apply_processRuntimeData ==
    /\ fn = "" /\ args.of = "rows"
    /\ fn' = "processRuntimeData"
    /\ value' = <<processRuntimeData(args.rows)>>
    /\ UNCHANGED <<args, exceptPure>>

NextPure ==
    \/ Apply_processRuntimeData
    \/ Apply_hasStateChanged
    \/ Apply_inferTransitionKind
    \/ Apply_shouldFetchSnapshot
    \/ Apply_Backoff
    \/ Apply_CheckHealth
    \/ Apply_normalizeMode
    \/ Apply_DocID

SpecPure == InitPure /\ [][NextPure]_vars

\* ----------------------------------------------------------- HealthChecker

\* how a provider or sink answers a call: at once with success or with an
\* error, with success after more than the probe deadline, or never
Behaviours == {"ok", "error", "slow", "hang"}

\* how long a call on a component of behaviour b lasts under a context that
\* is done (`done`) or ends after `limit` seconds, and whether it returns an error
CallDuration(b, done, limit) ==
    IF done THEN 0
    ELSE CASE b \in {"ok", "error"} -> 0
           [] b = "slow" -> IF ProbeDeadline + 1 < limit THEN ProbeDeadline + 1 ELSE limit
           [] OTHER -> limit
CallFailed(b, done, limit) ==
    \/ done
    \/ b \in {"error", "hang"}
    \/ b = "slow" /\ ProbeDeadline + 1 > limit

\* the providers and sinks handed to NewHealthChecker
InitHealth ==
    /\ IdleExceptHealth
    /\ hpc = "providers" /\ hi = 1
    /\ components \in [providers : [Providers -> [behaviour : Behaviours, tokenValid : BOOLEAN]],
                        sinks : [Sinks -> Behaviours]]
    /\ reqDone = FALSE /\ waited = 0 /\ probed = ""
    /\ probeResults = <<>> /\ healthStatus = "healthy"

\* checkProvider for the next provider: a refresh when the token is not valid,
\* then ListThermostats, both under CheckHealth's context and the provider's
\* HTTP client
HealthChecker_checkProvider ==
    /\ hpc = "providers" /\ hi <= NumProviders
    /\ LET c == components.providers[hi]
           refresh == IF c.tokenValid THEN 0 ELSE CallDuration(c.behaviour, reqDone, ClientTimeout)
           refreshFailed == ~c.tokenValid /\ CallFailed(c.behaviour, reqDone, ClientTimeout)
           list == CallDuration(c.behaviour, reqDone, ClientTimeout)
           listFails == CallFailed(c.behaviour, reqDone, ClientTimeout)
       IN  /\ waited' = IF refreshFailed THEN refresh ELSE refresh + list
           /\ probeResults' = Append(probeResults,
                                     IF refreshFailed THEN "fail"
                                     ELSE IF listFails THEN "warn" ELSE "pass")
    /\ probed' = "provider"
    /\ hi' = IF hi = NumProviders THEN 1 ELSE hi + 1
    /\ hpc' = IF hi = NumProviders THEN "sinks" ELSE hpc
    /\ UNCHANGED <<components, reqDone, healthStatus, exceptHealth>>

\* checkSink for the next sink: Open under a context that ends after ProbeDeadline
HealthChecker_checkSink ==
    /\ hpc = "sinks" /\ hi <= NumSinks
    /\ LET b == components.sinks[hi]
       IN  /\ waited' = CallDuration(b, reqDone, ProbeDeadline)
           /\ probeResults' = Append(probeResults,
                                     IF CallFailed(b, reqDone, ProbeDeadline)
                                     THEN "fail" ELSE "pass")
    /\ probed' = "sink"
    /\ hi' = hi + 1
    /\ UNCHANGED <<hpc, components, reqDone, healthStatus, exceptHealth>>

\* the rest of CheckHealth: the overall status is stored and returned
HealthChecker_CheckHealth ==
    /\ hpc = "sinks" /\ hi > NumSinks
    /\ healthStatus' = CheckHealth(probeResults)
    /\ hpc' = "returned"
    /\ UNCHANGED <<hi, components, reqDone, waited, probed, probeResults, exceptHealth>>

\* the client of the health request goes away: r.Context() is done
HealthCancel ==
    /\ hpc \in {"providers", "sinks"} /\ ~reqDone
    /\ reqDone' = TRUE
    /\ UNCHANGED <<hpc, hi, components, waited, probed, probeResults, healthStatus,
                   exceptHealth>>

NextHealth ==
    \/ HealthChecker_checkProvider
    \/ HealthChecker_checkSink
    \/ HealthChecker_CheckHealth
    \/ HealthCancel

SpecHealth == InitHealth /\ [][NextHealth]_vars

\* ------------------------------------------------------------ offset stores

StoreIds == {"th1", "th2"}
Streams == {"runtime", "snapshot"}
StoreTimes == 0..MaxTicks
Cells == Streams \X StoreIds

\* time.Time.Format(time.RFC3339): the text carries whole seconds only;
\* time.Parse(time.RFC3339, text) reads it back
Format(t) == <<"RFC3339", t \div TicksPerSecond>>
Parse(text) == text[2] * TicksPerSecond

\* a MemoryOffsetStore, and a SQLiteOffsetStore (its rows are in the file)
MemoryOffsetStore(runtimeTimes, snapshotTimes) ==
    [adapter |-> "memory", lastRuntimeTimes |-> runtimeTimes,
     lastSnapshotTimes |-> snapshotTimes]
SQLiteOffsetStore == [adapter |-> "sqlite"]

\* a call on the store: the method, its arguments, whether ctx was done, and
\* the error and time it returned
StoreCall(method, stream, id, t, done, err, got) ==
    <<[method |-> method, stream |-> stream, id |-> id, t |-> t, done |-> done,
       err |-> err, got |-> got]>>

InitStore ==
    /\ IdleExceptStore
    /\ offsetStore = [adapter |-> "none"]
    /\ dbFile = [i \in StoreIds |-> Nil]
    /\ sqliteOk \in BOOLEAN
    /\ wiredBy = "" /\ storeCall = Nil
    /\ expected = [c \in Cells |-> Nil]

\* initializeApp: the offset store handed to NewScheduler
initializeApp ==
    /\ offsetStore.adapter = "none"
    /\ offsetStore' = MemoryOffsetStore([i \in StoreIds |-> Zero], [i \in StoreIds |-> Zero])
    /\ wiredBy' = "main"
    /\ UNCHANGED <<dbFile, sqliteOk, storeCall, expected, exceptStore>>

\* a test constructs a MemoryOffsetStore
NewMemoryOffsetStore_test ==
    /\ offsetStore.adapter = "none"
    /\ offsetStore' = MemoryOffsetStore([i \in StoreIds |-> Zero], [i \in StoreIds |-> Zero])
    /\ wiredBy' = "test"
    /\ UNCHANGED <<dbFile, sqliteOk, storeCall, expected, exceptStore>>

\* a test constructs a SQLiteOffsetStore over the database file (where the
\* driver or the file is unusable the constructor returns an error)
NewSQLiteOffsetStore ==
    /\ offsetStore.adapter = "none" /\ sqliteOk
    /\ offsetStore' = SQLiteOffsetStore
    /\ wiredBy' = "test"
    /\ UNCHANGED <<dbFile, sqliteOk, storeCall, expected, exceptStore>>

\* MemoryOffsetStore.GetLastRuntimeTime / GetLastSnapshotTime: the map entry
\* under the read lock; ctx is not looked at
MemoryOffsetStore_Get(stream, id, done) ==
    /\ offsetStore.adapter = "memory"
    /\ storeCall' = StoreCall("get", stream, id, Zero, done, FALSE,
                              IF stream = "runtime" THEN offsetStore.lastRuntimeTimes[id]
                              ELSE offsetStore.lastSnapshotTimes[id])
    /\ UNCHANGED <<offsetStore, dbFile, sqliteOk, wiredBy, expected, exceptStore>>

\* variant: a set assigns the entry of the id in both maps
MemoryOffsetStore_Set_BothMaps(stream, id, t, done) ==
    /\ offsetStore.adapter = "memory"
    /\ offsetStore' = [offsetStore EXCEPT !.lastRuntimeTimes[id] = t,
                                          !.lastSnapshotTimes[id] = t]
    /\ storeCall' = StoreCall("set", stream, id, t, done, FALSE, Zero)
    /\ expected' = [expected EXCEPT ![<<stream, id>>] = <<t>>]
    /\ UNCHANGED <<dbFile, sqliteOk, wiredBy, exceptStore>>

\* MemoryOffsetStore.SetLastRuntimeTime / SetLastSnapshotTime: the map entry is
\* assigned under the write lock; ctx is not looked at
MemoryOffsetStore_Set(stream, id, t, done) ==
    /\ offsetStore.adapter = "memory"
    /\ offsetStore' = IF stream = "runtime"
                      THEN [offsetStore EXCEPT !.lastRuntimeTimes[id] = t]
                      ELSE [offsetStore EXCEPT !.lastSnapshotTimes[id] = t]
    /\ storeCall' = StoreCall("set", stream, id, t, done, FALSE, Zero)
    /\ expected' = [expected EXCEPT ![<<stream, id>>] = <<t>>]
    /\ UNCHANGED <<dbFile, sqliteOk, wiredBy, exceptStore>>

\* the column of a stream in a row of offset_tracking
Column(row, stream) ==
    IF stream = "runtime" THEN row.last_runtime_time ELSE row.last_snapshot_time

\* SQLiteOffsetStore.GetLastRuntimeTime / GetLastSnapshotTime: the query fails
\* under a done ctx; no row, NULL or "" read as the zero time; else the parsed text
SQLiteOffsetStore_Get(stream, id, done) ==
    /\ offsetStore.adapter = "sqlite"
    /\ LET row == dbFile[id]
       IN  storeCall' =
               IF done THEN StoreCall("get", stream, id, Zero, done, TRUE, Zero)
               ELSE IF row = Nil \/ Column(row[1], stream) = Nil
                    THEN StoreCall("get", stream, id, Zero, done, FALSE, Zero)
               ELSE StoreCall("get", stream, id, Zero, done, FALSE,
                              Parse(Column(row[1], stream)[1]))
    /\ UNCHANGED <<offsetStore, dbFile, sqliteOk, wiredBy, expected, exceptStore>>

\* variant: the statement inserts a row and leaves an existing row as it is
Upserted_InsertOnly(row, stream, text) ==
    IF row # Nil THEN row
    ELSE <<IF stream = "runtime"
           THEN [last_runtime_time |-> <<text>>, last_snapshot_time |-> Nil,
                 updated_at |-> "now"]
           ELSE [last_runtime_time |-> Nil, last_snapshot_time |-> <<text>>,
                 updated_at |-> "now"]>>

\* the INSERT ... ON CONFLICT(thermostat_id) DO UPDATE of a set
Upserted(row, stream, text) ==
    LET old == IF row = Nil
               THEN [last_runtime_time |-> Nil, last_snapshot_time |-> Nil,
                     updated_at |-> "now"]
               ELSE row[1]
    IN  <<IF stream = "runtime"
          THEN [old EXCEPT !.last_runtime_time = <<text>>, !.updated_at = "now"]
          ELSE [old EXCEPT !.last_snapshot_time = <<text>>, !.updated_at = "now"]>>

\* SQLiteOffsetStore.SetLastRuntimeTime / SetLastSnapshotTime: the statement
\* fails under a done ctx; else the formatted time is upserted in its column
SQLiteOffsetStore_Set(stream, id, t, done) ==
    /\ offsetStore.adapter = "sqlite"
    /\ IF done
       THEN /\ storeCall' = StoreCall("set", stream, id, t, done, TRUE, Zero)
            /\ UNCHANGED <<dbFile, expected>>
       ELSE /\ dbFile' = [dbFile EXCEPT ![id] = Upserted(dbFile[id], stream, Format(t))]
            /\ storeCall' = StoreCall("set", stream, id, t, done, FALSE, Zero)
            /\ expected' = [expected EXCEPT ![<<stream, id>>] = <<t>>]
    /\ UNCHANGED <<offsetStore, sqliteOk, wiredBy, exceptStore>>

GetLastRuntimeTime ==
    \E id \in StoreIds, done \in BOOLEAN :
        \/ MemoryOffsetStore_Get("runtime", id, done)
        \/ SQLiteOffsetStore_Get("runtime", id, done)

SetLastRuntimeTime ==
    \E id \in StoreIds, t \in StoreTimes, done \in BOOLEAN :
        \/ MemoryOffsetStore_Set("runtime", id, t, done)
        \/ SQLiteOffsetStore_Set("runtime", id, t, done)

GetLastSnapshotTime ==
    \E id \in StoreIds, done \in BOOLEAN :
        \/ MemoryOffsetStore_Get("snapshot", id, done)
        \/ SQLiteOffsetStore_Get("snapshot", id, done)

SetLastSnapshotTime ==
    \E id \in StoreIds, t \in StoreTimes, done \in BOOLEAN :
        \/ MemoryOffsetStore_Set("snapshot", id, t, done)
        \/ SQLiteOffsetStore_Set("snapshot", id, t, done)

\* the process ends and is started again, and the store is constructed as
\* before: the maps of a MemoryOffsetStore are new, the database file stays
StoreRestart ==
    /\ offsetStore.adapter # "none"
    /\ storeCall' = Nil
    /\ IF offsetStore.adapter = "memory"
       THEN /\ offsetStore' = MemoryOffsetStore([i \in StoreIds |-> Zero],
                                                [i \in StoreIds |-> Zero])
            /\ expected' = [c \in Cells |-> Nil]
       ELSE UNCHANGED <<offsetStore, expected>>
    /\ UNCHANGED <<dbFile, sqliteOk, wiredBy, exceptStore>>

NextStore ==
    \/ initializeApp
    \/ NewMemoryOffsetStore_test
    \/ NewSQLiteOffsetStore
    \/ GetLastRuntimeTime
    \/ SetLastRuntimeTime
    \/ GetLastSnapshotTime
    \/ SetLastSnapshotTime
    \/ StoreRestart

SpecStore == InitStore /\ [][NextStore]_vars

\* ------------------------------------------------------------------ claims

\* What a step of the running Scheduler (not a kill, which loses the in-memory
\* store) does to the offsets
OffsetsChange == Running /\ pc' = pc /\ offsets' # offsets

\* C1: when a sink Write of a batch returned a transport error, the step that
\* finishes handling the batch leaves the last-runtime and last-snapshot offsets
\* as they were.
C1_TransportFailureKeepsOffsets ==
    [][Transport(writeResults) => ~OffsetsChange]_vars

\* C2: an offset changes only in a step in which a sink Write of the batch
\* returned success (read weakly: on at least one sink, with no rejected item).
C2_OffsetFollowsSuccessfulWrite ==
    [][OffsetsChange => SomeOk(writeResults)]_vars

\* C3: when no sink Write returned a transport error but one reported rejected
\* documents (ErrorCount > 0), the offset of the batch is not advanced.
C3_PartialFailureKeepsOffsets ==
    [][(Partial(writeResults) /\ ~Transport(writeResults)) => ~OffsetsChange]_vars

\* C4: while the sink write of a thermostat's runtime batch, fetched from offset f,
\* has failed and has not been made good, the latest runtime fetch of that
\* thermostat started from f: the next cycle asks for the failed window again.
C4_FailedWindowFetchedAgain ==
    \A th \in Thermostats : failedFrom[th] # Zero => fetchFrom[th] = failedFrom[th]

\* C5: the records of a sink are keyed by document id: however often and in
\* whatever order documents were written, a sink holds one record per id.
C5_OneRecordPerDocumentId ==
    \A s \in Sinks : \A r1, r2 \in sinkStore[s] : r1.id = r2.id => r1 = r2

\* C6: a document that was written by a step a crash cut before its offset was
\* stored is, when written again, absorbed by the record it already has in the
\* sink: no step adds a second record with its id.
C6_CrashRewriteAbsorbed ==
    [][\A s \in Sinks : \A r \in sinkStore'[s] \ sinkStore[s] :
          \A d \in crashDocs : \A q \in sinkStore[s] :
              ~(r.id = d.id /\ q.id = d.id)]_vars

\* C7: at most one polling cycle is active at any time, also when the ticker
\* fires while a cycle is running.
C7_OneActiveCycle == activeCycles <= 1

\* C7 witness: a tick is waiting in the ticker's channel while a cycle runs
C7_TickDuringCycle == pc = "cycle" /\ activeCycles = 1 /\ tickPending

\* C8: a panic inside a polling cycle is caught: it never ends the process.
C8_PanicIsCaught == pc # "panicked"

\* C9: when a backfill or polling pass ends, every provider has been listed and
\* every thermostat of every provider whose list succeeded has been entered,
\* whatever errors other thermostats and providers ran into.
C9_ErrorsAreIsolated ==
    (Running /\ pi > NumProviders) =>
        /\ visitedP = Providers
        /\ \A p \in Providers \ listFailed : SeqToSet(ThermostatsOf(p)) \subseteq visitedT

\* C9 witness: a polling pass ends in which the list of provider 1 failed, th2
\* had an error and th3, after it in the same provider, was processed
C9_PassWithErrors ==
    /\ pc = "cycle" /\ pi > NumProviders
    /\ listFailed = {1} /\ "th2" \in errT /\ "th3" \in visitedT

\* C10: once the context is cancelled, Start begins no further polling cycle.
C10_NoCycleAfterCancel ==
    [][cancelled => ~(pc = "select" /\ pc' = "cycle")]_vars

\* C11: the provider calls made for one thermostat in one polling cycle come in
\* the order summary, snapshot (if fetched), runtime (if fetched); while the
\* snapshot step has not finished no runtime fetch has been made.
C11_CallsInOrder ==
    /\ calls \in {<<>>, <<"summary">>, <<"summary", "snapshot">>,
                  <<"summary", "runtime">>, <<"summary", "snapshot", "runtime">>}
    /\ (phase = "snapshot" \/ (phase = "offset" /\ kind = "snapshot"))
           => calls \in {<<"summary">>, <<"summary", "snapshot">>}

\* C11 witness: all three calls were made for one thermostat
C11_AllThreeCalls == calls = <<"summary", "snapshot", "runtime">>

C13_SkippedOnlyUntilNextCycle ==
    [][~(/\ pc = "cycle" /\ pc' = "cycle" /\ phase = "runtime"
         /\ lastRuntimeTimes[CurTh] = Zero
         /\ runtimeSkip[CurTh] = "skipped")]_vars

\* every sink returned full success for the current batch
AllOk(results) == results # <<>> /\ \A s \in DOMAIN results : results[s] = "ok"

\* C14: when the startup backfill of a thermostat fetched at least one row and
\* every sink wrote the batch, the step that ends the backfill of that thermostat
\* stores the event time of the last fetched row as its last-runtime offset.
C14_BackfillOffsetIsLastRow ==
    [][(/\ pc = "backfill" /\ pc' = "backfill" /\ phase = "offset"
        /\ Len(batch) >= 1 /\ AllOk(writeResults))
          => lastRuntimeTimes'[CurTh] = batch[Len(batch)].time]_vars

\* C14 witness: a backfill of two rows has stored the time of the second
C14_BackfilledTwoRows ==
    /\ pc = "backfill" /\ now = 2 /\ phase = "list" /\ pi = 2
    /\ lastRuntimeTimes["th1"] = 2 /\ Cardinality(sinkStore[1]) >= 2

\* the runtime_5m documents of a batch, in row order
RuntimeDocsOf(docs) == SelectSeq(docs, LAMBDA d : d.type = "runtime_5m")

\* the batch holds a transition document from row i to row i+1 of `rows`
TransitionEmitted(docs, rows, i) ==
    \E j \in 1..Len(docs) :
        /\ docs[j].type = "transition"
        /\ docs[j].time = rows[i + 1].time
        /\ docs[j].body.prev = rows[i].body
        /\ docs[j].body.next = rows[i + 1].body

\* C15: in every batch of normalized runtime rows, from the startup backfill or
\* from polling, a transition document is emitted for a pair of consecutive rows
\* exactly when the change predicate holds for the pair.
C15_TransitionIffChanged ==
    kind \in {"backfill", "runtime"} =>
        LET rows == RuntimeDocsOf(batch)
        IN  \A i \in 1..(Len(rows) - 1) :
                TransitionEmitted(batch, rows, i)
                    <=> hasStateChanged(rows[i].body, rows[i + 1].body)

\* |a - b| of two present setpoints, in 1/100 degC
AbsDiff(a, b) == IF a[1] >= b[1] THEN a[1] - b[1] ELSE b[1] - a[1]

\* the claim's reading of "the setpoint differs": one side nil and the other
\* not, or both present and at least 0.1 degC apart
SetpointDiffers(a, b) ==
    \/ (a = Nil) # (b = Nil)
    \/ a # Nil /\ b # Nil /\ AbsDiff(a, b) >= Tolerance

\* C16: the change predicate is true exactly when the modes differ, or the
\* climates differ, or set_heat_c or set_cool_c is nil on one side only or
\* differs by 0.1 degC or more.
C16_ChangePredicate ==
    fn = "hasStateChanged" =>
        (value[1] <=> \/ args.prev.mode # args.cur.mode
                      \/ args.prev.climate # args.cur.climate
                      \/ SetpointDiffers(args.prev.heat, args.cur.heat)
                      \/ SetpointDiffers(args.prev.cool, args.cur.cool))

\* C16 witness: only set_heat_c differs, by exactly 0.1 degC, and it is a change
C16_ChangeAtTolerance ==
    /\ fn = "hasStateChanged" /\ value[1]
    /\ args.prev.mode = args.cur.mode /\ args.prev.climate = args.cur.climate
    /\ args.prev.cool = args.cur.cool
    /\ args.prev.heat # Nil /\ args.cur.heat # Nil
    /\ AbsDiff(args.prev.heat, args.cur.heat) = Tolerance

\* C17: the kind is manual when the mode changed; otherwise, when the climate
\* changed, vacation for a new climate of Away or Vacation and schedule for any
\* other; otherwise hold when only setpoints changed.
C17_KindRules ==
    fn = "inferTransitionKind" =>
        LET modeChanged == args.prev.mode # args.cur.mode
            climateChanged == args.prev.climate # args.cur.climate
            setpointsChanged == \/ SetpointDiffers(args.prev.heat, args.cur.heat)
                                \/ SetpointDiffers(args.prev.cool, args.cur.cool)
        IN  /\ modeChanged => value[1] = "manual"
            /\ (~modeChanged /\ climateChanged /\ args.cur.climate \in {"Away", "Vacation"})
                   => value[1] = "vacation"
            /\ (~modeChanged /\ climateChanged /\ args.cur.climate \notin {"Away", "Vacation"})
                   => value[1] = "schedule"
            /\ (~modeChanged /\ ~climateChanged /\ setpointsChanged)
                   => value[1] = "hold"

\* C17 witness: mode and climate both changed, and the kind is manual
C17_ManualOverClimate ==
    /\ fn = "inferTransitionKind" /\ value[1] = "manual"
    /\ args.prev.mode # args.cur.mode
    /\ args.prev.climate # args.cur.climate /\ args.cur.climate = "Vacation"

\* C18: whenever the change predicate holds for a pair of states, the kind
\* inferred for the pair is not unknown.
C18_NeverUnknownOnChange ==
    (fn = "inferTransitionKind" /\ hasStateChanged(args.prev, args.cur))
        => value[1] # "unknown"

\* C18 witness: the only change is set_cool_c going from a value to nil, and the
\* kind is hold
C18_HoldOnSetpointCleared ==
    /\ fn = "inferTransitionKind" /\ value[1] = "hold"
    /\ hasStateChanged(args.prev, args.cur)
    /\ args.prev.heat = args.cur.heat
    /\ args.prev.cool # Nil /\ args.cur.cool = Nil

\* the transition documents of a batch
TransitionsOf(docs) == SelectSeq(docs, LAMBDA d : d.type = "transition")

\* C19: in the batch of one runtime fetch the first row produces no transition,
\* n rows produce at most n - 1 transitions, and every transition starts from the
\* state of an earlier row of the same fetch (none is fabricated from a state the
\* process does not hold, such as after a restart).
C19_FirstRowNoTransition ==
    (kind = "runtime" /\ batch # <<>>) =>
        /\ batch[1].type = "runtime_5m"
        /\ \A j \in 1..Len(batch) :
               batch[j].type = "transition" =>
                   /\ batch[j].time # batch[1].time
                   /\ \E i \in 1..(j - 2) : /\ batch[i].type = "runtime_5m"
                                            /\ batch[i].body = batch[j].body.prev
        /\ Len(TransitionsOf(batch)) <= Len(RuntimeDocsOf(batch)) - 1

\* C19 witness: a fetch of several rows after a restart whose batch holds a
\* transition for every row but the first
C19_TransitionsForAllButFirst ==
    /\ kind = "runtime" /\ crashDocs # {}
    /\ Len(RuntimeDocsOf(batch)) >= 2
    /\ Len(TransitionsOf(batch)) = Len(RuntimeDocsOf(batch)) - 1

\* C20: in DoWithResponse, when the operation hands back a response with status
\* 429 or >= 500, the call returns in that iteration only if no attempt remains;
\* while attempts remain it goes on to the wait and invokes the operation again.
C20_RetriableStatusIsRetried ==
    [][(/\ op = "DoWithResponse" /\ rpc = "call" /\ rpc' = "returned"
        /\ resp' # Nil
        /\ (resp'[1].StatusCode = 429 \/ resp'[1].StatusCode >= 500))
          => attempt >= config[1].MaxRetries]_vars

\* the response handed back in this step is retriable by status and carries a
\* Retry-After hint of positive duration
HintedRetriableResponse ==
    /\ op = "DoWithResponse" /\ rpc = "call" /\ resp' # Nil
    /\ (resp'[1].StatusCode = 429 \/ resp'[1].StatusCode >= 500)
    /\ parseRetryAfter(resp'[1].RetryAfter, clock) > 0

\* C21: when DoWithResponse gets a retriable response with a Retry-After hint
\* while attempts remain and ctx is live, it goes on to a wait; that wait lasts at
\* least the hinted duration and the operation is then invoked again.
C21_RetryAfterHonoured ==
    [][/\ (HintedRetriableResponse /\ attempt < config[1].MaxRetries) => rpc' = "wait"
       /\ (/\ op = "DoWithResponse" /\ rpc = "wait" /\ rpc' # "wait"
           /\ ~ctxDone /\ resp # Nil
           /\ parseRetryAfter(resp[1].RetryAfter, clock) > 0)
              => /\ rpc' = "call"
                 /\ clock' - clock >= parseRetryAfter(resp[1].RetryAfter, clock)]_vars

\* the call returned the cancellation error of the wait
ReturnedCancelled ==
    rpc = "returned" /\ ret[1].err # Nil
        /\ SubSeq(ret[1].err[1].msg, 1, 2) = <<"retry", "cancelled:">>

\* C22: one call of Do or DoWithResponse invokes the operation at most
\* MaxRetries + 1 times and, once returned, has invoked it at least once; with
\* MaxRetries = 0 exactly once; when it returned a retriable failure without
\* being cancelled, exactly MaxRetries + 1 times; and every call returns.
C22_InvocationBounds ==
    /\ [](/\ invocations <= config[1].MaxRetries + 1
          /\ rpc = "returned" =>
                /\ invocations >= 1
                /\ config[1].MaxRetries = 0 => invocations = 1
                /\ (IsRetriable(ret[1].err) /\ ~ReturnedCancelled)
                       => invocations = config[1].MaxRetries + 1)
    /\ <>(rpc = "returned")

\* C22 witness: a call that exhausted the largest retry budget on retriable errors
C22_BudgetExhausted ==
    /\ rpc = "returned" /\ config[1].MaxRetries = RetryMax
    /\ IsRetriable(ret[1].err) /\ ~ReturnedCancelled
    /\ invocations = RetryMax + 1

\* C23: a call that was cancelled during the wait between two attempts returns
\* a cancelled outcome that wraps the last error the operation returned.
C23_CancelledWrapsLastError ==
    ReturnedCancelled => ret[1].err[1].wraps = lastErr

\* C24: the delay that Backoff returns never exceeds the policy's MaxDelay, for
\* any attempt number, with or without jitter.
C24_BackoffWithinMaxDelay ==
    fn = "Backoff" => value[1] <= args.c.MaxDelay

\* C25: a call of makeAuthenticatedRequest that got a 401 has, when it returns,
\* invoked the token refresh exactly once after the 401 and sent the request at
\* most twice; twice exactly unless that refresh failed.
C25_OneRefreshOneResend ==
    \A c \in Callers :
        (callers[c].pc = "done" /\ callers[c].got401) =>
            /\ callers[c].refreshes = 1
            /\ callers[c].sends <= 2
            /\ callers[c].out # "refresh failed" => callers[c].sends = 2

\* C26: no goroutine obtains or sends an access token that a completed refresh
\* has replaced.
C26_NoStaleTokenAfterRefresh == stale = {}

\* no Record call is in progress
NoRecordInProgress == \A g \in Goroutines : workers[g].pc = "idle"

\* C27: whenever no Record call is in progress, every counter equals the number
\* of Record calls made for it (documents: their sum); and no step lowers a
\* counter or a value that GetMetrics reports.
C27_CountersExactAndMonotonic ==
    /\ [](NoRecordInProgress => \A k \in Counters : collector[k] = completed[k])
    /\ [][/\ \A k \in Counters : collector'[k] >= collector[k]
          /\ (snapshot # Nil /\ snapshot' # Nil)
                 => \A k \in Counters : snapshot'[1][k] >= snapshot[1][k]]_vars

\* C27 witness: both goroutines recorded twice for the same provider, interleaved
\* with a reader, and the counter is 4
C27_FourConcurrentRecords ==
    /\ NoRecordInProgress
    /\ \A g \in Goroutines : workers[g].left = 0
    /\ collector[<<"providerRequests", 1>>] = 2 * MaxRecords
    /\ snapshot # Nil /\ snapshot[1][<<"providerRequests", 1>>] = 1

\* how many elements of a sequence satisfy a test
CountIn(seq, Test(_)) == Cardinality({i \in DOMAIN seq : Test(seq[i])})

Requests(q) == CountIn(recorded, LAMBDA r : r = RecordProviderRequest(q))
ProviderErrors(q) == CountIn(recorded, LAMBDA r : r = RecordProviderError(q))
CallsTo(q, methods) ==
    CountIn(providerCalls, LAMBDA c : c.provider = q /\ c.method \in methods)
FailedCallsTo(q, methods) ==
    CountIn(providerCalls, LAMBDA c : c.provider = q /\ c.method \in methods /\ c.failed)

ProviderMethods == {"list_thermostats", "get_summary", "get_snapshot", "get_runtime"}

\* C28: every provider call the scheduler makes (list_thermostats, get_summary,
\* get_snapshot, get_runtime) adds exactly one to that provider's requests_total,
\* and every such call that fails adds exactly one to its errors_total: the
\* RecordProviderRequest and RecordProviderError calls of a step are as many as
\* the provider calls and the failed provider calls it made
C28_EveryProviderCallCounted ==
    \A q \in Providers :
        /\ Requests(q) = CallsTo(q, ProviderMethods)
        /\ ProviderErrors(q) = FailedCallsTo(q, ProviderMethods)

\* what holds of the code: the calls other than list_thermostats are counted
\* that way, and a list_thermostats call records nothing
C28_AllButListCounted ==
    \A q \in Providers :
        /\ Requests(q) = CallsTo(q, ProviderMethods \ {"list_thermostats"})
        /\ ProviderErrors(q) = FailedCallsTo(q, ProviderMethods \ {"list_thermostats"})

SinkWrites(s) == CountIn(recorded, LAMBDA r : r.m = "RecordSinkWrite" /\ r.name = s)
SinkErrors(s) == CountIn(recorded, LAMBDA r : r = RecordSinkError(s))

\* the latest step submitted a batch to every sink
BatchSubmitted == phase = "offset" /\ batch # <<>> /\ writeResults # <<>>

\* C29: every batch the scheduler submits to a sink adds exactly one to that
\* sink's writes_total, whether its write succeeded or failed
C29_EveryBatchCountedAsWrite ==
    BatchSubmitted => \A s \in Sinks : SinkWrites(s) = 1

\* what holds of the code: a batch counts as a write unless the write returned
\* an error, and then it counts as an error only
C29_ReturnedWritesCounted ==
    BatchSubmitted =>
        \A s \in Sinks :
            /\ SinkWrites(s) = (IF writeResults[s] = "transport" THEN 0 ELSE 1)
            /\ SinkErrors(s) = (IF writeResults[s] = "ok" THEN 0 ELSE 1)

Some(checks, status) == \E i \in DOMAIN checks : checks[i] = status

\* C30: the overall health status is unhealthy if at least one check is fail,
\* degraded if no check is fail and at least one is warn, and healthy otherwise,
\* whatever the number of checks and the order in which they are examined
C30_OverallStatus ==
    fn = "CheckHealth" =>
        value[1] = (IF Some(args.checks, "fail") THEN "unhealthy"
                    ELSE IF Some(args.checks, "warn") THEN "degraded"
                    ELSE "healthy")

\* C30 witness: a fail was examined between two warns and with a pass, and the
\* status is unhealthy
C30_FailAmongWarns ==
    /\ fn = "CheckHealth" /\ value = <<"unhealthy">>
    /\ Some(args.checks, "pass")
    /\ \E i, j, k \in DOMAIN args.checks :
           /\ i < j /\ j < k
           /\ args.checks[i] = "warn" /\ args.checks[j] = "fail" /\ args.checks[k] = "warn"

\* C31: every health probe, for a provider as well as for a sink, runs under
\* its own 5-second deadline: no probe takes longer than ProbeDeadline
C31_EveryProbeWithinDeadline == waited <= ProbeDeadline

\* what holds of the code: a sink probe ends within ProbeDeadline, a provider
\* probe within the HTTP client timeouts of its two calls
C31_SinkProbeWithinDeadline ==
    /\ probed = "sink" => waited <= ProbeDeadline
    /\ probed = "provider" => waited <= 2 * ClientTimeout

\* the latest call was made on a MemoryOffsetStore
MemoryCall == storeCall # Nil /\ offsetStore.adapter = "memory"

\* C32: the in-memory offset store's get and set fail only on cancellation:
\* with a cancelled handle they return an error, and a set then leaves the
\* stored offset unchanged; with a live handle they never fail
C32_MemoryFailsOnCancellationOnly ==
    /\ [](MemoryCall => (storeCall[1].err <=> storeCall[1].done))
    /\ [][(/\ offsetStore.adapter = "memory" /\ offsetStore'.adapter = "memory"
            /\ storeCall' # Nil /\ storeCall'[1].method = "set" /\ storeCall'[1].done)
               => offsetStore' = offsetStore]_vars

\* what holds of the code: the in-memory store never returns an error
C32_MemoryNeverFails == MemoryCall => ~storeCall[1].err

\* the latest call was a get that returned no error
GotOffset == storeCall # Nil /\ storeCall[1].method = "get" /\ ~storeCall[1].err

\* a time cut to whole seconds
WholeSeconds(t) == t - (t % TicksPerSecond)

\* C33: for both adapters and both streams, after set(id, t) every get(id)
\* returns t (the durable adapter: t cut to whole seconds) until the next set
\* for the same id and stream, and a later set overwrites the earlier value
C33_GetReturnsLatestSet ==
    (GotOffset /\ expected[<<storeCall[1].stream, storeCall[1].id>>] # Nil) =>
        LET t == expected[<<storeCall[1].stream, storeCall[1].id>>][1]
        IN  storeCall[1].got = (IF offsetStore.adapter = "sqlite" THEN WholeSeconds(t) ELSE t)

\* C33 witness: the durable adapter returned the whole seconds of a time with
\* a fraction, while the row holds a different time for the other stream
C33_DurableRoundTrip ==
    /\ GotOffset /\ offsetStore.adapter = "sqlite"
    /\ LET cell == <<storeCall[1].stream, storeCall[1].id>>
           row == dbFile[storeCall[1].id]
       IN  /\ expected[cell] # Nil
           /\ expected[cell][1] % TicksPerSecond # 0
           /\ storeCall[1].got = WholeSeconds(expected[cell][1])
           /\ storeCall[1].got # Zero
           /\ row[1].last_runtime_time # Nil /\ row[1].last_snapshot_time # Nil
           /\ row[1].last_runtime_time # row[1].last_snapshot_time

\* what a get of a cell returns from a store and a database file
ReadOffset(os, file, cell) ==
    IF os.adapter = "memory"
    THEN (IF cell[1] = "runtime" THEN os.lastRuntimeTimes[cell[2]]
          ELSE os.lastSnapshotTimes[cell[2]])
    ELSE IF file[cell[2]] = Nil THEN Zero
    ELSE LET col == IF cell[1] = "runtime" THEN file[cell[2]][1].last_runtime_time
                    ELSE file[cell[2]][1].last_snapshot_time
         IN  IF col = Nil THEN Zero ELSE col[1][2] * TicksPerSecond

\* C40: setting one stream's offset for one thermostat changes nothing else in
\* the offset store: the offsets of every other thermostat, and the other
\* stream's offset of the same thermostat, read the same before and after
C40_SetChangesOneOffset ==
    [][(/\ storeCall' # Nil /\ storeCall'[1].method = "set"
        /\ offsetStore.adapter = offsetStore'.adapter)
           => \A c \in Cells \ {<<storeCall'[1].stream, storeCall'[1].id>>} :
                  ReadOffset(offsetStore', dbFile', c) = ReadOffset(offsetStore, dbFile, c)]_vars

\* C40 witness: a set changed one offset of a thermostat whose other stream,
\* and another thermostat, hold other non-zero offsets
C40_SetAmongOtherOffsets ==
    /\ storeCall # Nil /\ storeCall[1].method = "set" /\ ~storeCall[1].err
    /\ \E c, d \in Cells :
           /\ c[2] = storeCall[1].id /\ c[1] # storeCall[1].stream
           /\ d[2] # storeCall[1].id
           /\ ReadOffset(offsetStore, dbFile, c) \notin {Zero, WholeSeconds(storeCall[1].t)}
           /\ ReadOffset(offsetStore, dbFile, d) \notin {Zero, WholeSeconds(storeCall[1].t)}
           /\ ReadOffset(offsetStore, dbFile, <<storeCall[1].stream, storeCall[1].id>>)
                  = (IF offsetStore.adapter = "sqlite" THEN WholeSeconds(storeCall[1].t)
                     ELSE storeCall[1].t)

\* C34: the application keeps offsets in the durable (SQLite) store whenever
\* that store initializes successfully, so that offsets survive a restart, and
\* falls back to the in-memory store only when the durable store cannot be
\* initialized
C34_DurableStorePreferred ==
    /\ [](wiredBy = "main" => (offsetStore.adapter = "sqlite" <=> sqliteOk))
    /\ [][(wiredBy = "main" /\ sqliteOk /\ storeCall # Nil /\ storeCall' = Nil)
             => \A c \in Cells :
                    ReadOffset(offsetStore', dbFile', c) = ReadOffset(offsetStore, dbFile, c)]_vars

\* what holds of the code: the application's offset store is the in-memory one
C34_ApplicationStoreInMemory == wiredBy = "main" => offsetStore.adapter = "memory"

CanonicalModes == {"heat", "cool", "auto", "off"}

\* a mode string the normalizer knows, in any case, or the empty string
RecognizedMode(m) ==
    \/ m = ""
    \/ \E known \in {"heat", "heating", "cool", "cooling", "auto", "automatic",
                      "off", "disabled"} : ToLower(m) = known

C36_DifferentDocsDifferentIds ==
    fn = "DocID" => (args.a # args.b => value[1] # value[2])

\* the fields the identifier of a document's type is computed from
IdFields(doc) ==
    CASE doc.type = "runtime_5m" -> <<doc.th, doc.time, doc.body>>
      [] doc.type = "transition" -> <<doc.th, doc.time, doc.body.prev, doc.body.next>>
      [] OTHER -> <<doc.th, doc.time>>

\* C36 as amended: two canonical documents of the same type receive different
\* identifiers when they differ in a field the identifier of that type is
\* computed from: any field of a runtime_5m document; the thermostat, the event
\* time, the previous or the next state of a transition; the thermostat or the
\* collection time of a device snapshot
C36_DifferentIdFieldsDifferentIds ==
    fn = "DocID" => (IdFields(args.a) # IdFields(args.b) => value[1] # value[2])

\* C36 witness: two transitions that differ in the previous state only
C36_TransitionsDifferInPrev ==
    /\ fn = "DocID" /\ args.a.type = "transition"
    /\ args.a.body.prev # args.b.body.prev
    /\ [args.a EXCEPT !.body.prev = args.b.body.prev] = args.b
    /\ value[1] # value[2]

C38_OffsetOfWrittenRow ==
    fn = "processRuntimeData"
        => LET r == value[1]
           IN  r.offset # Nil => \E i \in 1..Len(r.docs) : r.docs[i] = r.offset[1]

\* what the steps do: the offset is the event_time of the last row returned,
\* skipped or not
C38_OffsetOfLastRow ==
    fn = "processRuntimeData"
        => value[1].offset = IF args.rows = <<>> THEN Nil
                             ELSE <<args.rows[Len(args.rows)].time>>

\* the last row was skipped and the offset moved to its event_time
C38_SkippedRowMovedOffset ==
    /\ fn = "processRuntimeData"
    /\ Len(args.rows) >= 2
    /\ ~args.rows[Len(args.rows)].marshals
    /\ value[1].offset = <<args.rows[Len(args.rows)].time>>
    /\ \A i \in 1..Len(value[1].docs) : value[1].docs[i] < value[1].offset[1]

\* C39: whatever the other sinks answered to a batch, every sink that accepts
\* it in that step has acknowledged and holds each of its documents.
C39_FailedSinkStopsNoOther ==
    \A s \in DOMAIN writeResults :
        writeResults[s] = "ok"
            => /\ DocKeys(SeqToSet(batch)) \subseteq acked[s]
               /\ \A i \in 1..Len(batch) :
                      \E r \in sinkStore[s] : r.id = DocID(batch[i]) /\ r.body = batch[i].body

\* the first sink failed on a batch, and the second, which held nothing before,
\* holds the batch
C39_WrittenAfterFailedSink ==
    /\ batch # <<>>
    /\ writeResults # <<>>
    /\ writeResults[1] = "transport" /\ writeResults[2] = "ok"
    /\ sinkStore[1] = {}
    /\ Cardinality(sinkStore[2]) = Len(batch)
    /\ DocKeys(SeqToSet(batch)) = acked[2]

====
